---- MODULE Spec2Model ----
(***************************************************************************)
(* HandSynth: the music-mapping core (musicTheory.js, enhanced revision)   *)
(* and the voice lifecycle manager (audio.js, revision with sampled        *)
(* instruments), driven by the hand-tracking frame handler.                *)
(*                                                                         *)
(* Numbers: hand positions are rationals k / YDen; mapRange and Math.floor *)
(* are computed exactly on rationals.  A note name is the pair of its      *)
(* spelling and its octave digits, [name |-> "C#", oct |-> 4] for "C#4";   *)
(* names are parsed back with the code's own tables.                       *)
(***************************************************************************)
EXTENDS Integers, Sequences, FiniteSets, TLC

(***************************************************************************)
(* Bounds of the model                                                     *)
(***************************************************************************)
\* hand positions are the grid points k / YDen
YDen == 20

(***************************************************************************)
(* Small helpers                                                           *)
(***************************************************************************)
Max(a, b) == IF a >= b THEN a ELSE b

Min(a, b) == IF a <= b THEN a ELSE b

Abs(a) == IF a >= 0 THEN a ELSE -a

\* JavaScript arrays are 0-based: arr[i] is defined for 0 <= i < arr.length
HasIndex(arr, i) == i >= 0 /\ i < Len(arr)

At0(arr, i) == arr[i + 1]

\* Array.prototype.indexOf
RECURSIVE IndexFrom(_, _, _)
IndexFrom(arr, x, i) ==
  IF i > Len(arr) THEN -1
  ELSE IF arr[i] = x THEN i - 1
  ELSE IndexFrom(arr, x, i + 1)

IndexOf(arr, x) == IndexFrom(arr, x, 1)

\* Array.prototype.sort((a, b) => a - b)
RECURSIVE InsertSorted(_, _)
InsertSorted(s, x) ==
  IF s = << >> THEN << x >>
  ELSE IF x < Head(s) THEN << x >> \o s
  ELSE << Head(s) >> \o InsertSorted(Tail(s), x)

RECURSIVE SortNum(_)
SortNum(s) == IF s = << >> THEN << >> ELSE InsertSorted(SortNum(Tail(s)), Head(s))

\* total of |a[i] - b[i]|, the reduce() of applyFastVoiceLeading
RECURSIVE Movement(_, _)
Movement(a, b) ==
  IF a = << >> THEN 0
  ELSE Abs(Head(a) - Head(b)) + Movement(Tail(a), Tail(b))

(***************************************************************************)
(* utils.js                                                                *)
(***************************************************************************)
\* Math.floor(mapRange(value, inMin, inMax, outMin, outMax)) for
\* value = vn/vd, inMin = an/ad, inMax = bn/bd (all denominators > 0)
FloorMapRange(vn, vd, an, ad, bn, bd, outMin, outMax) ==
  LET belowMin == vn * ad < an * vd
      aboveMax == vn * bd > bn * vd
      cn == IF belowMin THEN an ELSE IF aboveMax THEN bn ELSE vn
      cd == IF belowMin THEN ad ELSE IF aboveMax THEN bd ELSE vd
      \* (value - inMin) / (inMax - inMin) = num / den
      num == (cn * ad - an * cd) * bd
      den == cd * (bn * ad - an * bd)
  IN  (num * (outMax - outMin) + outMin * den) \div den

(***************************************************************************)
(* musicTheory.js: tables                                                  *)
(***************************************************************************)
scales ==
  [ major           |-> << 0, 2, 4, 5, 7, 9, 11 >>,
    minor           |-> << 0, 2, 3, 5, 7, 8, 10 >>,
    dorian          |-> << 0, 2, 3, 5, 7, 9, 10 >>,
    phrygian        |-> << 0, 1, 3, 5, 7, 8, 10 >>,
    lydian          |-> << 0, 2, 4, 6, 7, 9, 11 >>,
    mixolydian      |-> << 0, 2, 4, 5, 7, 9, 10 >>,
    aeolian         |-> << 0, 2, 3, 5, 7, 8, 10 >>,
    locrian         |-> << 0, 1, 3, 5, 6, 8, 10 >>,
    pentatonic      |-> << 0, 2, 4, 7, 9 >>,
    pentatonicMinor |-> << 0, 3, 5, 7, 10 >>,
    majorBlues      |-> << 0, 2, 3, 4, 7, 9, 10 >>,
    minorBlues      |-> << 0, 3, 5, 6, 7, 10 >>,
    chromatic       |-> << 0, 1, 2, 3, 4, 5, 6, 7, 8, 9, 10, 11 >> ]

ScaleNames == DOMAIN scales

notes == << "C", "C#", "D", "D#", "E", "F", "F#", "G", "G#", "A", "A#", "B" >>

notesWithFlats == << "C", "Db", "D", "Eb", "E", "F", "Gb", "G", "Ab", "A", "Bb", "B" >>

chordTypes ==
  [ major           |-> << 0, 4, 7 >>,
    minor           |-> << 0, 3, 7 >>,
    diminished      |-> << 0, 3, 6 >>,
    augmented       |-> << 0, 4, 8 >>,
    sus2            |-> << 0, 2, 7 >>,
    sus4            |-> << 0, 5, 7 >>,
    dominant7       |-> << 0, 4, 7, 10 >>,
    major7          |-> << 0, 4, 7, 11 >>,
    minor7          |-> << 0, 3, 7, 10 >>,
    diminished7     |-> << 0, 3, 6, 9 >>,
    halfDiminished7 |-> << 0, 3, 6, 10 >>,
    augmented7      |-> << 0, 4, 8, 10 >> ]

CHORD_PROGRESSIONS ==
  [ major           |-> << "major", "minor", "minor", "major", "major", "minor", "diminished" >>,
    minor           |-> << "minor", "diminished", "major", "minor", "minor", "major", "major" >>,
    dorian          |-> << "minor", "minor", "major", "major", "minor", "diminished", "major" >>,
    phrygian        |-> << "minor", "major", "major", "minor", "diminished", "major", "minor" >>,
    lydian          |-> << "major", "major", "minor", "diminished", "major", "minor", "minor" >>,
    mixolydian      |-> << "major", "minor", "diminished", "major", "minor", "minor", "major" >>,
    aeolian         |-> << "minor", "diminished", "major", "minor", "minor", "major", "major" >>,
    locrian         |-> << "diminished", "major", "minor", "minor", "major", "major", "minor" >>,
    majorBlues      |-> << "dominant7", "dominant7", "minor7", "dominant7", "dominant7", "minor7" >>,
    minorBlues      |-> << "minor7", "major7", "minor7", "minor7", "dominant7", "dominant7" >>,
    pentatonic      |-> << "major", "minor", "minor", "major", "minor" >>,
    pentatonicMinor |-> << "minor", "major", "minor", "minor", "major" >>,
    chromatic       |-> << "major", "minor", "major", "minor", "major", "minor",
                           "major", "minor", "major", "minor", "major", "minor" >> ]

\* scales[name] || scales.major
ScaleArray(name) == IF name \in DOMAIN scales THEN scales[name] ELSE scales.major

\* CHORD_PROGRESSIONS[name] || CHORD_PROGRESSIONS.major
ProgressionOf(name) ==
  IF name \in DOMAIN CHORD_PROGRESSIONS THEN CHORD_PROGRESSIONS[name]
  ELSE CHORD_PROGRESSIONS.major

\* a scale name no table knows, and a root no spelling table knows
UnknownScale == "hirajoshi"

UnknownRoot == "H"

\* scaleName.includes('minor') and scaleName.includes('Blues'), on the names
\* the model uses (String.includes is case-sensitive)
IncludesMinor(scaleName) == scaleName \in { "minor", "minorBlues" }

IncludesBlues(scaleName) == scaleName \in { "majorBlues", "minorBlues" }

flatKeys == { "F", "Bb", "Eb", "Ab", "Db", "Gb", "Cb" }

minorToRelativeMajor ==
  [ r \in { "C", "C#", "Db", "D", "D#", "Eb", "E", "F", "F#", "Gb", "G", "G#",
            "Ab", "A", "A#", "Bb", "B" } |->
      CASE r = "C"  -> "Eb" [] r = "C#" -> "E"  [] r = "Db" -> "E"
        [] r = "D"  -> "F"  [] r = "D#" -> "F#" [] r = "Eb" -> "Gb"
        [] r = "E"  -> "G"  [] r = "F"  -> "Ab" [] r = "F#" -> "A"
        [] r = "Gb" -> "A"  [] r = "G"  -> "Bb" [] r = "G#" -> "B"
        [] r = "Ab" -> "B"  [] r = "A"  -> "C"  [] r = "A#" -> "C#"
        [] r = "Bb" -> "Db" [] r = "B"  -> "D" ]

\* the noteMap of noteNameToMidi
noteMap ==
  [ n \in { "C", "C#", "Db", "D", "D#", "Eb", "E", "F", "F#", "Gb", "G", "G#",
            "Ab", "A", "A#", "Bb", "B" } |->
      CASE n = "C"  -> 0  [] n = "C#" -> 1  [] n = "Db" -> 1  [] n = "D"  -> 2
        [] n = "D#" -> 3  [] n = "Eb" -> 3  [] n = "E"  -> 4  [] n = "F"  -> 5
        [] n = "F#" -> 6  [] n = "Gb" -> 6  [] n = "G"  -> 7  [] n = "G#" -> 8
        [] n = "Ab" -> 8  [] n = "A"  -> 9  [] n = "A#" -> 10 [] n = "Bb" -> 10
        [] n = "B"  -> 11 ]

\* the spellings /^([A-G][#b]?)(\d+)$/ accepts
RegexNames ==
  { "A", "B", "C", "D", "E", "F", "G",
    "A#", "B#", "C#", "D#", "E#", "F#", "G#",
    "Ab", "Bb", "Cb", "Db", "Eb", "Fb", "Gb" }

\* a note name: `${name}${oct}`
Note(name, oct) == [ name |-> name, oct |-> oct ]

(***************************************************************************)
(* musicTheory.js: pure functions                                          *)
(***************************************************************************)
noteNameToMidi(noteName) ==
  IF ~(noteName.name \in RegexNames /\ noteName.oct >= 0) THEN 60
  ELSE (noteName.oct * 12)
       + (IF noteName.name \in DOMAIN noteMap THEN noteMap[noteName.name] ELSE 0)

\* rootNote || selectedRoot || 'C' is taken by the callers, which always pass
\* the selected root
getNotesForScale(scaleName, rootNote) ==
  LET currentRoot == rootNote
      relative == IF currentRoot \in DOMAIN minorToRelativeMajor
                  THEN minorToRelativeMajor[currentRoot] ELSE currentRoot
      keyToCheck == IF IncludesBlues(scaleName) THEN currentRoot
                    ELSE IF IncludesMinor(scaleName) THEN relative
                    ELSE currentRoot
  IN  IF keyToCheck \in flatKeys THEN notesWithFlats ELSE notes

calculateNoteFromMIDI(midiNote, scale, root) ==
  LET clampedMidi == Max(0, Min(127, midiNote))
      noteIndex == clampedMidi % 12
      oct == clampedMidi \div 12
      validNoteIndex == Max(0, Min(11, noteIndex))
      validOctave == Max(0, Min(9, oct))
      appropriateNotes == getNotesForScale(scale, root)
  IN  Note(At0(appropriateNotes, validNoteIndex), validOctave)

\* applyFastVoiceLeading without the 12-semitone threshold: always the
\* candidate that moves less
applyFastVoiceLeadingNoThreshold(newTriad, lastTriad) ==
  IF Len(lastTriad) # 3 THEN newTriad
  ELSE
    LET firstInversion == << newTriad[2], newTriad[3], newTriad[1] + 12 >>
    IN  IF Movement(firstInversion, lastTriad) < Movement(newTriad, lastTriad)
        THEN SortNum(firstInversion)
        ELSE newTriad

\* applyFastVoiceLeading(newTriad, lastTriad)
applyFastVoiceLeading(newTriad, lastTriad) ==
  IF Len(lastTriad) # 3 THEN newTriad
  ELSE
    LET currentMovement == Movement(newTriad, lastTriad)
        rootPosition == newTriad
        firstInversion == << newTriad[2], newTriad[3], newTriad[1] + 12 >>
        rootMovement == Movement(rootPosition, lastTriad)
        firstMovement == Movement(firstInversion, lastTriad)
    IN  IF currentMovement <= 12 THEN newTriad
        ELSE IF firstMovement < rootMovement THEN SortNum(firstInversion)
        ELSE rootPosition

\* no applyFastVoiceLeading call was made
NoLead == [ called |-> FALSE, newTriad |-> << >>, lastTriad |-> << >>, out |-> << >> ]

\* applyVoiceLeading(chordNotes, chordRoot, baseOctave): the notes it returns,
\* the lastChordVoicing it leaves, and the applyFastVoiceLeading call it made
applyVoiceLeading(chordNotes, baseOctave, enabled, last, scale, root) ==
  IF Len(chordNotes) < 3 \/ ~enabled
  THEN [ notes |-> chordNotes, voicing |-> last, lead |-> NoLead ]
  ELSE
    LET chordMidi == [ i \in 1..3 |-> noteNameToMidi(chordNotes[i]) ]
        rootMidi == noteNameToMidi(chordNotes[1])
        triadBaseOctave == Max(3, baseOctave)
        triadBaseMidi == triadBaseOctave * 12
        sorted == SortNum([ i \in 1..3 |-> triadBaseMidi + (chordMidi[i] % 12) ])
        useLast == Len(last) = 3
        triadVoicing == IF useLast THEN applyFastVoiceLeading(sorted, last) ELSE sorted
        bassOctave == Max(1, triadBaseOctave - 2)
        bassNote == (rootMidi % 12) + (bassOctave * 12)
        finalVoicing == << bassNote >> \o triadVoicing
    IN  [ notes |-> [ i \in 1..4 |-> calculateNoteFromMIDI(finalVoicing[i], scale, root) ],
          voicing |-> triadVoicing,
          lead |-> IF useLast
                   THEN [ called |-> TRUE, newTriad |-> sorted, lastTriad |-> last,
                          out |-> triadVoicing ]
                   ELSE NoLead ]

\* getChordDisplayName
getChordDisplayName(chordTypeKey) ==
  CASE chordTypeKey = "major" -> ""
    [] chordTypeKey = "minor" -> "m"
    [] chordTypeKey = "diminished" -> "dim"
    [] chordTypeKey = "augmented" -> "aug"
    [] chordTypeKey = "dominant7" -> "7"
    [] chordTypeKey = "minor7" -> "m7"
    [] chordTypeKey = "major7" -> "maj7"
    [] chordTypeKey = "diminished7" -> "dim7"
    [] OTHER -> ""

\* the midiBase field of a chord that has none (the fallback chord)
NoMidiBase == "undefined"

\* RootIndexOf looking the root up in the flat spellings only
RootIndexOfFlatsOnly(appropriateNotes, root) == IndexOf(notesWithFlats, root)

\* the root index lookup shared by the mapping functions:
\* appropriateNotes.indexOf(root), then notes.indexOf(root); -1 when both miss
RootIndexOf(appropriateNotes, root) ==
  IF IndexOf(appropriateNotes, root) # -1 THEN IndexOf(appropriateNotes, root)
  ELSE IndexOf(notes, root)

\* createFallbackChord(root, octave)
createFallbackChord(root, oct, enabled, last, scale, selRoot) ==
  LET appropriateNotes == getNotesForScale(scale, selRoot)
      known == IndexOf(appropriateNotes, root) # -1 \/ IndexOf(notes, root) # -1
               \/ IndexOf(notesWithFlats, root) # -1
      safeRoot == IF known THEN root ELSE "C"
      safeOctave == Max(1, Min(6, oct))
      i1 == RootIndexOf(appropriateNotes, safeRoot)
      rootIndex == IF i1 # -1 THEN i1
                   ELSE IF IndexOf(notesWithFlats, safeRoot) # -1
                        THEN IndexOf(notesWithFlats, safeRoot) ELSE 0
      basicTriad == << Note(safeRoot, safeOctave),
                       Note(At0(appropriateNotes, (rootIndex + 4) % 12), safeOctave),
                       Note(At0(appropriateNotes, (rootIndex + 7) % 12), safeOctave) >>
      led == applyVoiceLeading(basicTriad, safeOctave, enabled, last, scale, selRoot)
  IN  [ chord |-> [ root |-> safeRoot, type |-> "major", notes |-> led.notes,
                    name |-> << safeRoot, "" >>, midiBase |-> NoMidiBase, error |-> TRUE ],
        voicing |-> led.voicing,
        lead |-> led.lead ]

\* createChord without the floor of 1 under the octave of the chord's base
createChordNoOctaveFloor(chordRoot, chordTypeKey, oct, enabled, last, scale, selRoot) ==
  LET intervals == chordTypes[chordTypeKey]
      appropriateNotes == getNotesForScale(scale, selRoot)
      chordRootIndex == RootIndexOf(appropriateNotes, chordRoot)
      midiBaseForChord == (12 * (oct - 1)) + chordRootIndex
      chordNotes == [ i \in 1..Len(intervals) |->
                        calculateNoteFromMIDI(midiBaseForChord + intervals[i], scale, selRoot) ]
      led == applyVoiceLeading(chordNotes, oct, enabled, last, scale, selRoot)
  IN  IF chordRootIndex = -1
      THEN createFallbackChord("C", oct, enabled, last, scale, selRoot)
      ELSE [ chord |-> [ root |-> chordRoot, type |-> chordTypeKey, notes |-> led.notes,
                         name |-> << chordRoot, getChordDisplayName(chordTypeKey) >>,
                         midiBase |-> midiBaseForChord, error |-> FALSE ],
             voicing |-> led.voicing,
             lead |-> led.lead ]

\* createChord(chordRoot, chordTypeKey, octave); chordTypeKey is a key of
\* chordTypes at every call site, and every interval of the table is valid
createChord(chordRoot, chordTypeKey, oct, enabled, last, scale, selRoot) ==
  LET intervals == chordTypes[chordTypeKey]
      appropriateNotes == getNotesForScale(scale, selRoot)
      chordRootIndex == RootIndexOf(appropriateNotes, chordRoot)
      midiBaseForChord == (12 * Max(1, oct - 1)) + chordRootIndex
      chordNotes == [ i \in 1..Len(intervals) |->
                        calculateNoteFromMIDI(midiBaseForChord + intervals[i], scale, selRoot) ]
      led == applyVoiceLeading(chordNotes, oct, enabled, last, scale, selRoot)
  IN  IF chordRootIndex = -1
      THEN createFallbackChord("C", oct, enabled, last, scale, selRoot)
      ELSE [ chord |-> [ root |-> chordRoot, type |-> chordTypeKey, notes |-> led.notes,
                         name |-> << chordRoot, getChordDisplayName(chordTypeKey) >>,
                         midiBase |-> midiBaseForChord, error |-> FALSE ],
             voicing |-> led.voicing,
             lead |-> led.lead ]

\* validY of both mapping functions, as the grid index k of k / YDen
ValidY(k) == Max(0, Min(YDen, k))

\* MelodyPosition without the inversion of the output range
MelodyPositionNotInverted(k, scale) ==
  LET scaleLength == Len(ScaleArray(scale))
      totalRange == Max(14, (scaleLength + 1) + 6)
  IN  FloorMapRange(ValidY(k), YDen, 1, 5, 1, 1, 0, totalRange - 1)

\* the position (degree) getNoteFromPosition computes for y = k / YDen
MelodyPosition(k, scale) ==
  LET scaleLength == Len(ScaleArray(scale))
      totalRange == Max(14, (scaleLength + 1) + 6)
  IN  FloorMapRange(ValidY(k), YDen, 1, 5, 1, 1, totalRange - 1, 0)

\* getNoteFromPosition(y, isArpeggioMode, currentChord) with y = k / YDen;
\* hasChordNotes: currentChord && currentChord.notes && currentChord.notes.length > 0.
\* The module neither defines nor imports getArpeggioNote, so the arpeggio
\* branch ends in a ReferenceError.
getNoteFromPosition(k, isArpeggioMode, hasChordNotes, scale, root, oct) ==
  LET scaleArray == ScaleArray(scale)
      currentOctave == Max(2, Min(7, oct))
      scaleLength == Len(scaleArray)
      position == MelodyPosition(k, scale)
      rawIndex == position % (scaleLength + 1)
      indexInScale == IF rawIndex = scaleLength THEN 0 ELSE rawIndex
      octaveOffset == (position \div (scaleLength + 1))
                      + (IF rawIndex = scaleLength THEN 1 ELSE 0)
      semitones == At0(scaleArray, indexInScale)
      appropriateNotes == getNotesForScale(scale, root)
      found == RootIndexOf(appropriateNotes, root)
      rootIndex == IF found = -1 THEN 0 ELSE found
      midiBase == 60 + rootIndex
      finalOctaveOffset == currentOctave - 5 + octaveOffset
      midiNote == midiBase + semitones + (finalOctaveOffset * 12)
  IN  IF isArpeggioMode /\ hasChordNotes
      THEN [ threw |-> TRUE, note |-> Note(root, currentOctave) ]
      ELSE IF ~HasIndex(scaleArray, indexInScale)
      THEN [ threw |-> FALSE, note |-> Note(root, currentOctave) ]
      ELSE [ threw |-> FALSE, note |-> calculateNoteFromMIDI(midiNote, scale, root) ]

\* the position getChordFromPosition computes for y = k / YDen
ChordPosition(k) == FloorMapRange(ValidY(k), YDen, 1, 4, 1, 1, 7, 0)

\* the 7th-chord conversion of getChordFromPosition
SeventhOf(chordTypeKey, scaleDegree) ==
  CASE chordTypeKey = "major" -> IF scaleDegree = 4 THEN "dominant7" ELSE "major7"
    [] chordTypeKey = "minor" -> "minor7"
    [] chordTypeKey = "diminished" -> "diminished7"
    [] OTHER -> chordTypeKey

\* getChordFromPosition(y, use7thChords) with y = k / YDen: the chord, the
\* lastChordVoicing it leaves and the voice-leading call it made
getChordFromPosition(k, use7thChords, scale, root, oct, enabled, last) ==
  LET scaleArray == ScaleArray(scale)
      currentOctave == Max(1, Min(5, oct))
      position == ChordPosition(k)
      isOctaveHigher == position = 7
      scaleDegree == IF position = 7 THEN 0
                     ELSE position % Max(Len(scaleArray), 7)
      appropriateNotes == getNotesForScale(scale, root)
      rootIndex == RootIndexOf(appropriateNotes, root)
      degreeOffset == At0(scaleArray, scaleDegree)
      chordRootIndex == (rootIndex + degreeOffset) % 12
      chordRoot == At0(appropriateNotes, chordRootIndex)
      chordProgression == ProgressionOf(scale)
      baseType == At0(chordProgression, scaleDegree % Len(chordProgression))
      chordTypeKey == IF use7thChords THEN SeventhOf(baseType, scaleDegree) ELSE baseType
      chordOctave == IF isOctaveHigher THEN currentOctave ELSE currentOctave - 1
  IN  IF rootIndex = -1
      THEN createFallbackChord(root, currentOctave, enabled, last, scale, root)
      ELSE IF ~HasIndex(scaleArray, scaleDegree)
      THEN createFallbackChord(root, currentOctave, enabled, last, scale, root)
      ELSE IF chordTypeKey \notin DOMAIN chordTypes
      THEN createChord(chordRoot, "major", currentOctave - 1, enabled, last, scale, root)
      ELSE createChord(chordRoot, chordTypeKey, chordOctave, enabled, last, scale, root)

(***************************************************************************)
(* musicTheory.js: the sound presets                                       *)
(***************************************************************************)
\* soundPresets[sound].type for the keys of soundPresets
soundPresets ==
  [ synth |-> "synthetic", bell |-> "synthetic", pad |-> "synthetic",
    pluck |-> "synthetic", piano |-> "synthetic",
    realPiano |-> "real", realGuitar |-> "real", realViolin |-> "real",
    realFlute |-> "real", realSaxophone |-> "real", realCello |-> "real" ]

(***************************************************************************)
(* realInstruments.js: the sample library and the samplers                 *)
(***************************************************************************)
\* SAMPLE_LIBRARY[instrumentId].samples, the keys in their order, for the
\* instruments whose samples are plain note files
SAMPLE_LIBRARY ==
  [ realPiano |-> << Note("C", 2), Note("C", 3), Note("C", 4), Note("C", 5), Note("C", 6) >>,
    realGuitar |-> << Note("E", 2), Note("A", 2), Note("D", 3), Note("G", 3),
                      Note("B", 3), Note("E", 4) >>,
    realViolin |-> << Note("G", 3), Note("D", 4), Note("A", 4), Note("E", 5) >>,
    realSaxophone |-> << Note("Bb", 3), Note("F", 4), Note("Bb", 4), Note("F", 5) >> ]

\* NOTE_FREQUENCIES: semitones from A
NOTE_FREQUENCIES ==
  [ n \in RegexNames |->
      CASE n = "C" -> -9
        [] n \in { "C#", "Db" } -> -8
        [] n = "D" -> -7
        [] n \in { "D#", "Eb" } -> -6
        [] n = "E" -> -5
        [] n = "F" -> -4
        [] n \in { "F#", "Gb" } -> -3
        [] n = "G" -> -2
        [] n \in { "G#", "Ab" } -> -1
        [] n = "A" -> 0
        [] n \in { "A#", "Bb" } -> 1
        [] n = "B" -> 2
        [] OTHER -> 0 ]

\* 440 * 2^(s / 12) for s = -57 .. -46 (C0 .. B0), in thousandths of a hertz
OctaveZeroMilliHertz ==
  << 16352, 17324, 18354, 19445, 20602, 21827, 23125, 24500, 25957, 27500, 29135, 30868 >>

\* noteToFrequency(note), in thousandths of a hertz
noteToFrequency(note) ==
  IF note.name \notin RegexNames THEN 440000
  ELSE OctaveZeroMilliHertz[NOTE_FREQUENCIES[note.name] + 10] * (2 ^ note.oct)

\* the loop of findClosestSample: the first sample of the least distance
RECURSIVE ClosestFrom(_, _, _, _)
ClosestFrom(sampleNotes, i, closestNote, targetFreq) ==
  IF i > Len(sampleNotes) THEN closestNote
  ELSE IF Abs(noteToFrequency(sampleNotes[i]) - targetFreq)
            < Abs(noteToFrequency(closestNote) - targetFreq)
       THEN ClosestFrom(sampleNotes, i + 1, sampleNotes[i], targetFreq)
       ELSE ClosestFrom(sampleNotes, i + 1, closestNote, targetFreq)

\* findClosestSample(instrumentId, targetNote).sampleNote
findClosestSample(instrumentId, targetNote) ==
  LET sampleNotes == SAMPLE_LIBRARY[instrumentId]
  IN  ClosestFrom(sampleNotes, 1, sampleNotes[1], noteToFrequency(targetNote))

\* findBestSampleForNote(instrumentId, targetNote, dynamic, articulation)
findBestSampleForNote(instrumentId, targetNote) ==
  IF instrumentId \notin DOMAIN SAMPLE_LIBRARY THEN targetNote
  ELSE findClosestSample(instrumentId, targetNote)

(***************************************************************************)
(* audio.js: the voices.  The operations below take the audio state as a   *)
(* record st of the audio variables and return the state they leave.       *)
(* fault names the kind of backend call that throws while the operation    *)
(* runs ("attack", "release"), or "none".                                  *)
(***************************************************************************)
\* null, for the variables that hold a name
Null == "null"

\* null, for the variables that hold a note
NoNote == Note("", 0)

\* null, for the variables that hold a chord
NoChord ==
  [ root |-> "", type |-> "", notes |-> << >>, name |-> << "", "" >>,
    midiBase |-> NoMidiBase, error |-> FALSE ]

IsNoChord(chord) == chord.root = ""

\* melodySynth / harmonySynth before setupAudio
NoSynth == [ made |-> FALSE, attacked |-> {}, preset |-> "", volume |-> 0 ]

\* volume.value = -Infinity, in the unit of the volumes (tenths of a dB)
MinusInfinity == -1000000

\* new Tone.Synth(...) / new Tone.PolySynth(...) with the envelope and the
\* oscillator of a preset, and the volume.value set on it
NewSynth(preset, volume) ==
  [ made |-> TRUE, attacked |-> {}, preset |-> preset, volume |-> volume ]

\* the setTimeout delays of audio.js, in ms
UpdateSynthsDelay == 100

NoteChangeDelay == 30

ChordChangeDelay == 30

StopChordDelay == 100

\* a pending setTimeout callback and what its closure holds; velocity is the
\* adjustedVelocity of a deferred sampled attack
Timer(kind, rem, sound, note, chord, whileSounding) ==
  [ kind |-> kind, rem |-> rem, sound |-> sound, note |-> note, chord |-> chord,
    whileSounding |-> whileSounding, velocity |-> 0 ]

setTimeout(st, timer) == [ st EXCEPT !.timers = Append(@, timer) ]

\* one call of the backend: who issued it, on which voice, and whether it returned
Call(by, on, fn, ok) == [ by |-> by, on |-> on, fn |-> fn, ok |-> ok ]

Log(st, call) == [ st EXCEPT !.calls = Append(@, call) ]

\* the notes of a sequence, as a set
NotesOf(seq) == { seq[i] : i \in 1..Len(seq) }

\* the key under which a Tone.Sampler holds the sources of a note: its pitch
SamplerKey(note) == noteNameToMidi(note)

\* playRealNote(instrumentId, note, ...): the sampler's error is caught inside
playRealNote(st, by, instrumentId, note, fault) ==
  IF instrumentId \notin DOMAIN st.samplers THEN st
  ELSE IF fault = "attack"
       THEN Log(st, Call(by, instrumentId, "triggerAttack", FALSE))
       ELSE [ Log(st, Call(by, instrumentId, "triggerAttack", TRUE))
                EXCEPT !.samplers[instrumentId] =
                         @ \cup { SamplerKey(findBestSampleForNote(instrumentId, note)) } ]

\* stopRealNote(instrumentId, note)
stopRealNote(st, by, instrumentId, note, fault) ==
  IF instrumentId \notin DOMAIN st.samplers THEN st
  ELSE IF note # NoNote
       THEN IF fault = "release"
            THEN Log(st, Call(by, instrumentId, "triggerRelease", FALSE))
            ELSE [ Log(st, Call(by, instrumentId, "triggerRelease", TRUE))
                     EXCEPT !.samplers[instrumentId] =
                              @ \ { SamplerKey(findClosestSample(instrumentId, note)) } ]
       ELSE IF fault = "release"
            THEN Log(st, Call(by, instrumentId, "releaseAll", FALSE))
            ELSE [ Log(st, Call(by, instrumentId, "releaseAll", TRUE))
                     EXCEPT !.samplers[instrumentId] = {} ]

\* the fallback of playRealChord: notes.forEach(note => playRealNote(...))
RECURSIVE PlayEachRealNote(_, _, _, _, _, _)
PlayEachRealNote(st, by, instrumentId, noteNames, i, fault) ==
  IF i > Len(noteNames) THEN st
  ELSE PlayEachRealNote(playRealNote(st, by, instrumentId, noteNames[i], fault),
                        by, instrumentId, noteNames, i + 1, fault)

\* sampleNotes.forEach(sampleNote => sampler.triggerAttack(sampleNote, ...))
RECURSIVE AttackEachSample(_, _, _, _, _)
AttackEachSample(st, by, instrumentId, noteNames, i) ==
  IF i > Len(noteNames) THEN st
  ELSE AttackEachSample(
         [ Log(st, Call(by, instrumentId, "triggerAttack", TRUE))
             EXCEPT !.samplers[instrumentId] =
                      @ \cup { SamplerKey(findBestSampleForNote(instrumentId, noteNames[i])) } ],
         by, instrumentId, noteNames, i + 1)

\* playRealChord(instrumentId, notes, ...)
playRealChord(st, by, instrumentId, noteNames, fault) ==
  IF instrumentId \notin DOMAIN st.samplers \/ Len(noteNames) = 0 THEN st
  ELSE IF fault = "attack"
       THEN PlayEachRealNote(Log(st, Call(by, instrumentId, "triggerAttack", FALSE)),
                             by, instrumentId, noteNames, 1, fault)
       ELSE AttackEachSample(st, by, instrumentId, noteNames, 1)

\* notes.forEach(note => sampler.triggerRelease(note))
RECURSIVE ReleaseEachNote(_, _, _, _, _)
ReleaseEachNote(st, by, instrumentId, noteNames, i) ==
  IF i > Len(noteNames) THEN st
  ELSE ReleaseEachNote(
         [ Log(st, Call(by, instrumentId, "triggerRelease", TRUE))
             EXCEPT !.samplers[instrumentId] = @ \ { SamplerKey(noteNames[i]) } ],
         by, instrumentId, noteNames, i + 1)

\* stopRealChord(instrumentId, notes)
stopRealChord(st, by, instrumentId, noteNames, fault) ==
  IF instrumentId \notin DOMAIN st.samplers THEN st
  ELSE IF Len(noteNames) > 0
       THEN IF fault = "release"
            THEN Log(st, Call(by, instrumentId, "triggerRelease", FALSE))
            ELSE ReleaseEachNote(st, by, instrumentId, noteNames, 1)
       ELSE IF fault = "release"
            THEN Log(st, Call(by, instrumentId, "releaseAll", FALSE))
            ELSE [ Log(st, Call(by, instrumentId, "releaseAll", TRUE))
                     EXCEPT !.samplers[instrumentId] = {} ]

\* connectRealInstrument(instrumentId, destination)
connectRealInstrument(st, instrumentId) ==
  IF instrumentId \in DOMAIN st.samplers
  THEN [ st EXCEPT !.currentInstrument = instrumentId ]
  ELSE st

\* disconnectRealInstrument()
disconnectRealInstrument(st) == [ st EXCEPT !.currentInstrument = Null ]

\* currentInstrumentType === 'real' && currentRealInstrument
UsesRealInstrument(st) ==
  st.currentInstrumentType = "real" /\ st.currentRealInstrument # Null

(***************************************************************************)
(* audio.js: levels and effects.  Distances from the centre are in         *)
(* twentieths of the frame width, pinch distances in thousandths, volumes  *)
(* in tenths of a dB.                                                      *)
(***************************************************************************)
\* utils.js mapRange(value, inMin, inMax, outMin, outMax); the units of the
\* callers make the division exact
mapRange(value, inMin, inMax, outMin, outMax) ==
  (((Max(inMin, Min(inMax, value)) - inMin) * (outMax - outMin)) \div (inMax - inMin))
    + outMin

MIN_PINCH_DIST == 10

MAX_PINCH_DIST == 100

\* audio.js: the default of currentPinchDistance
RestPinch == 50

\* audio.js: the least time between two effect changes, in ms
EFFECT_CHANGE_THRESHOLD == 80

\* the effect parameters ramped in a log of calls
EffectCalls(log) == { i \in 1..Len(log) : log[i].by = "setEffects" }

\* mapRange(currentPinchDistance, MIN_PINCH_DIST, MAX_PINCH_DIST, 1.0, 0.0),
\* in ninetieths
gestureIntensity(pinchDistance) ==
  mapRange(pinchDistance, MIN_PINCH_DIST, MAX_PINCH_DIST, 90, 0)

\* adjustedVelocity of playMelodyNote: velocity * (0.5 + gestureIntensity * 0.5)
\* with velocity = mapRange(Math.abs(rightHandVolume), -30, 5, 0.2, 0.9);
\* the unit is 1 / 1,800,000
MelodyVelocity(volume, pinchDistance) ==
  mapRange(Abs(volume), -300, 50, 2000, 9000) * (90 + gestureIntensity(pinchDistance))

\* adjustedVelocity of playChord: velocity * (0.4 + gestureIntensity * 0.6)
\* with velocity = mapRange(Math.abs(leftHandVolume), -30, 5, 0.3, 0.8);
\* the unit is 1 / 63,000,000
ChordVelocity(volume, pinchDistance) ==
  mapRange(Abs(volume), -300, 50, 21000, 56000)
    * (360 + (6 * gestureIntensity(pinchDistance)))

\* setEffects without the test of lastEffectChangeTime
setEffectsUnthrottled(st, pinchDistance) ==
  IF ~st.audioStarted THEN st
  ELSE [ Log(Log(Log(st, Call("setEffects", "reverb", "rampTo", TRUE)),
                 Call("setEffects", "delay", "rampTo", TRUE)),
             Call("setEffects", "delay", "rampTo", TRUE))
           EXCEPT !.sinceEffect = 0,
                  !.effectIntensity = gestureIntensity(pinchDistance) ]

\* setEffects(pinchDistance): reverb and delay exist once setupAudio has run
setEffects(st, pinchDistance) ==
  IF ~st.audioStarted THEN st
  ELSE IF st.sinceEffect < EFFECT_CHANGE_THRESHOLD THEN st
  ELSE [ Log(Log(Log(st, Call("setEffects", "reverb", "rampTo", TRUE)),
                 Call("setEffects", "delay", "rampTo", TRUE)),
             Call("setEffects", "delay", "rampTo", TRUE))
           EXCEPT !.sinceEffect = 0,
                  !.effectIntensity = gestureIntensity(pinchDistance) ]

\* setRealInstrumentVolume(instrumentId, volume)
setRealInstrumentVolume(st, instrumentId) ==
  IF instrumentId \in DOMAIN st.samplers
  THEN Log(st, Call("setVolume", instrumentId, "rampTo", TRUE))
  ELSE st

\* the levels setVolume sets for a hand, before it calls setEffects
HandVolume(st, hand, volume) ==
  IF hand = "left"
  THEN IF st.currentInstrumentType = "real" /\ st.currentRealInstrument # Null
       THEN [ setRealInstrumentVolume(st, st.currentRealInstrument)
                EXCEPT !.leftHandVolume = volume ]
       ELSE IF st.harmonySynth.made
       THEN [ st EXCEPT !.leftHandVolume = volume, !.harmonySynth.volume = volume ]
       ELSE [ st EXCEPT !.leftHandVolume = volume ]
  ELSE IF st.currentInstrumentType = "real" /\ st.currentRealInstrument # Null
       THEN [ setRealInstrumentVolume(st, st.currentRealInstrument)
                EXCEPT !.rightHandVolume = volume ]
       ELSE IF st.melodySynth.made
       THEN [ st EXCEPT !.rightHandVolume = volume, !.melodySynth.volume = volume ]
       ELSE [ st EXCEPT !.rightHandVolume = volume ]

\* setVolume(hand, distanceFromCenter, pinchDistance)
setVolume(st, hand, distanceFromCenter, pinchDistance) ==
  IF ~st.audioStarted THEN st
  ELSE setEffects(
         HandVolume([ st EXCEPT !.currentPinchDistance = pinchDistance ], hand,
                    mapRange(distanceFromCenter, 0, 10, -300, 50)),
         pinchDistance)

\* RebuildHarmonySynth without the new Tone.PolySynth: the variable keeps the
\* disposed voice
DisposeHarmonySynthOnly(st, by, sound) ==
  Log(st, Call(by, "harmonySynth", "dispose", TRUE))

\* the voices rebuilt in place of the disposed ones: dispose(), new Tone.Synth /
\* new Tone.PolySynth with the preset's parameters, connect, volume
RebuildHarmonySynth(st, by, sound) ==
  [ Log(Log(st, Call(by, "harmonySynth", "dispose", TRUE)),
        Call(by, "harmonySynth", "new", TRUE))
      EXCEPT !.harmonySynth = NewSynth(sound, st.leftHandVolume) ]

RebuildMelodySynth(st, by, sound) ==
  [ Log(Log(st, Call(by, "melodySynth", "dispose", TRUE)),
        Call(by, "melodySynth", "new", TRUE))
      EXCEPT !.melodySynth = NewSynth(sound, st.rightHandVolume) ]

\* setupAudio(), with the selected sound
setupAudio(st, sound) ==
  LET type == soundPresets[sound]
      typed == [ st EXCEPT !.currentInstrumentType = type,
                           !.samplers = [ i \in DOMAIN SAMPLE_LIBRARY |-> {} ] ]
      built ==
        IF type = "real"
        THEN [ connectRealInstrument(typed, sound)
                 EXCEPT !.currentRealInstrument = sound,
                        !.melodySynth = NewSynth("default", MinusInfinity),
                        !.harmonySynth = NewSynth("default", MinusInfinity) ]
        ELSE [ typed EXCEPT !.melodySynth = NewSynth(sound, st.rightHandVolume),
                            !.harmonySynth = NewSynth(sound, st.leftHandVolume) ]
  IN  [ built EXCEPT !.audioStarted = TRUE ]

\* updateSynths(), with the selected sound: the part that runs at once
updateSynths(st, sound, fault) ==
  IF ~st.melodySynth.made \/ ~st.harmonySynth.made THEN st
  ELSE IF sound \notin DOMAIN soundPresets THEN st
  ELSE
    LET by == "updateSynths"
        timer == Timer("updateSynths", UpdateSynthsDelay, sound, NoNote, NoChord,
                       st.rightHandIsPlaying \/ st.leftHandIsPlaying)
    IN  IF UsesRealInstrument(st)
        THEN LET inst == st.currentRealInstrument
                 s1 == stopRealNote(st, by, inst, NoNote, fault)
                 s2 == stopRealChord(s1, by, inst, << >>, fault)
             IN  setTimeout(disconnectRealInstrument(s2), timer)
        ELSE IF fault = "release"
             THEN Log(st, Call(by, "melodySynth", "triggerRelease", FALSE))
             ELSE LET s1 == [ Log(st, Call(by, "melodySynth", "triggerRelease", TRUE))
                                EXCEPT !.melodySynth.attacked = {} ]
                      s2 == [ Log(s1, Call(by, "harmonySynth", "releaseAll", TRUE))
                                EXCEPT !.harmonySynth.attacked = {} ]
                  IN  setTimeout(s2, timer)

\* the callback updateSynths defers: preset and currentSound are those of the call
UpdateSynthsCallback(st, timer) ==
  LET by == "updateSynths"
      type == soundPresets[timer.sound]
      typed == [ st EXCEPT !.currentInstrumentType = type ]
      switched ==
        IF type = "real"
        THEN [ connectRealInstrument([ typed EXCEPT !.currentRealInstrument = timer.sound ],
                                     timer.sound)
                 EXCEPT !.melodySynth.volume = MinusInfinity,
                        !.harmonySynth.volume = MinusInfinity ]
        ELSE RebuildHarmonySynth(
               RebuildMelodySynth([ typed EXCEPT !.currentRealInstrument = Null ],
                                  by, timer.sound),
               by, timer.sound)
  IN  [ switched EXCEPT !.rightHandIsPlaying = FALSE, !.leftHandIsPlaying = FALSE,
                        !.currentMelodyNote = NoNote, !.currentChord = NoChord ]

\* playMelodyNote(note, handPosition, pinchDistance); melodyVelocity is the
\* adjustedVelocity handed to playRealNote
playMelodyNote(st, note, pinchDistance, fault) ==
  IF ~st.audioStarted THEN st
  ELSE
    LET by == "playMelodyNote"
        noteChanged == note # st.lastMelodyNote
        s0 == [ st EXCEPT !.lastMelodyNote = note,
                          !.currentPinchDistance = pinchDistance ]
        adjustedVelocity == MelodyVelocity(st.rightHandVolume, pinchDistance)
    IN  IF UsesRealInstrument(s0)
        THEN IF ~s0.rightHandIsPlaying
             THEN [ playRealNote(s0, by, s0.currentRealInstrument, note, fault)
                      EXCEPT !.rightHandIsPlaying = TRUE, !.currentMelodyNote = note,
                             !.melodyVelocity = adjustedVelocity ]
             ELSE IF noteChanged
             THEN setTimeout(
                    stopRealNote(s0, by, s0.currentRealInstrument, s0.currentMelodyNote, fault),
                    [ Timer("playMelodyNote", NoteChangeDelay, Null, note, NoChord, FALSE)
                        EXCEPT !.velocity = adjustedVelocity ])
             ELSE s0
        ELSE IF ~s0.melodySynth.made THEN s0
        ELSE IF ~s0.rightHandIsPlaying
             THEN IF fault = "attack"
                  THEN Log(s0, Call(by, "melodySynth", "triggerAttack", FALSE))
                  ELSE [ Log(s0, Call(by, "melodySynth", "triggerAttack", TRUE))
                           EXCEPT !.melodySynth.attacked = { note },
                                  !.rightHandIsPlaying = TRUE,
                                  !.currentMelodyNote = note ]
             ELSE IF noteChanged
             THEN IF fault = "release"
                  THEN Log(s0, Call(by, "melodySynth", "triggerRelease", FALSE))
                  ELSE LET s1 == [ Log(s0, Call(by, "melodySynth", "triggerRelease", TRUE))
                                     EXCEPT !.melodySynth.attacked = {} ]
                       IN  IF fault = "attack"
                           THEN Log(s1, Call(by, "melodySynth", "triggerAttack", FALSE))
                           ELSE [ Log(s1, Call(by, "melodySynth", "triggerAttack", TRUE))
                                    EXCEPT !.melodySynth.attacked = { note },
                                           !.currentMelodyNote = note ]
             ELSE s0

\* the callback playMelodyNote defers on a sampled note change
PlayMelodyNoteCallback(st, timer) ==
  [ playRealNote(st, "playMelodyNote", st.currentRealInstrument, timer.note, "none")
      EXCEPT !.currentMelodyNote = timer.note, !.melodyVelocity = timer.velocity ]

\* playChord(chord, handPosition, pinchDistance); harmonyVelocity is the
\* adjustedVelocity handed to playRealChord
playChord(s, chord, pinchDistance, fault) ==
  IF ~s.audioStarted THEN s
  ELSE
    LET by == "playChord"
        chordChanged == IsNoChord(s.lastChord) \/ chord.notes # s.lastChord.notes
        st == [ s EXCEPT !.currentPinchDistance = pinchDistance ]
        adjustedVelocity == ChordVelocity(s.leftHandVolume, pinchDistance)
    IN  IF UsesRealInstrument(st)
        THEN IF ~st.leftHandIsPlaying
             THEN [ playRealChord(st, by, st.currentRealInstrument, chord.notes, fault)
                      EXCEPT !.leftHandIsPlaying = TRUE, !.currentChord = chord,
                             !.lastChord = chord, !.harmonyVelocity = adjustedVelocity ]
             ELSE IF chordChanged
             THEN setTimeout(
                    stopRealChord(st, by, st.currentRealInstrument, st.lastChord.notes, fault),
                    [ Timer("playChord", ChordChangeDelay, Null, NoNote, chord, FALSE)
                        EXCEPT !.velocity = adjustedVelocity ])
             ELSE st
        ELSE IF ~st.harmonySynth.made THEN st
        ELSE IF ~st.leftHandIsPlaying
             THEN IF fault = "attack"
                  THEN Log(st, Call(by, "harmonySynth", "triggerAttack", FALSE))
                  ELSE [ Log(st, Call(by, "harmonySynth", "triggerAttack", TRUE))
                           EXCEPT !.harmonySynth.attacked = @ \cup NotesOf(chord.notes),
                                  !.leftHandIsPlaying = TRUE,
                                  !.currentChord = chord,
                                  !.lastChord = chord ]
             ELSE IF chordChanged
             THEN IF fault = "release"
                  THEN Log(st, Call(by, "harmonySynth", "releaseAll", FALSE))
                  ELSE LET s1 == [ Log(st, Call(by, "harmonySynth", "releaseAll", TRUE))
                                     EXCEPT !.harmonySynth.attacked = {} ]
                           s2 == RebuildHarmonySynth(s1, by, st.selectedSound)
                       IN  IF fault = "attack"
                           THEN Log(s2, Call(by, "harmonySynth", "triggerAttack", FALSE))
                           ELSE [ Log(s2, Call(by, "harmonySynth", "triggerAttack", TRUE))
                                    EXCEPT !.harmonySynth.attacked = NotesOf(chord.notes),
                                           !.currentChord = chord,
                                           !.lastChord = chord ]
             ELSE st

\* the callback playChord defers on a sampled chord change
PlayChordCallback(st, timer) ==
  [ playRealChord(st, "playChord", st.currentRealInstrument, timer.chord.notes, "none")
      EXCEPT !.currentChord = timer.chord, !.lastChord = timer.chord,
             !.harmonyVelocity = timer.velocity ]

\* the outcome of an operation that lets a backend error through
Returned(st) == [ st |-> st, threw |-> FALSE ]

Thrown(st) == [ st |-> st, threw |-> TRUE ]

\* stopMelody()
stopMelody(st, fault) ==
  IF ~st.rightHandIsPlaying THEN Returned(st)
  ELSE
    LET by == "stopMelody"
        idle(s) == [ s EXCEPT !.rightHandIsPlaying = FALSE, !.currentMelodyNote = NoNote ]
    IN  IF UsesRealInstrument(st)
        THEN Returned(idle(stopRealNote(st, by, st.currentRealInstrument,
                                        st.currentMelodyNote, fault)))
        ELSE IF st.melodySynth.made
        THEN IF fault = "release"
             THEN Thrown(Log(st, Call(by, "melodySynth", "triggerRelease", FALSE)))
             ELSE Returned(idle([ Log(st, Call(by, "melodySynth", "triggerRelease", TRUE))
                                    EXCEPT !.melodySynth.attacked = {} ]))
        ELSE Returned(idle(st))

\* stopChord()
stopChord(st, fault) ==
  IF ~st.leftHandIsPlaying THEN Returned(st)
  ELSE
    LET by == "stopChord"
        idle(s) == [ s EXCEPT !.leftHandIsPlaying = FALSE, !.currentChord = NoChord ]
    IN  IF UsesRealInstrument(st)
        THEN Returned(idle(stopRealChord(st, by, st.currentRealInstrument,
                                         st.currentChord.notes, fault)))
        ELSE IF st.harmonySynth.made
        THEN IF fault = "release"
             THEN Thrown(Log(st, Call(by, "harmonySynth", "releaseAll", FALSE)))
             ELSE Returned(idle(setTimeout(
                    [ Log(st, Call(by, "harmonySynth", "releaseAll", TRUE))
                        EXCEPT !.harmonySynth.attacked = {} ],
                    Timer("stopChord", StopChordDelay, Null, NoNote, NoChord, FALSE))))
        ELSE Returned(idle(st))

\* the callback stopChord defers: the rebuild when the chord is playing again
StopChordCallback(st, timer) ==
  IF st.leftHandIsPlaying /\ st.harmonySynth.made
  THEN RebuildHarmonySynth(st, "stopChord", st.selectedSound)
  ELSE st

\* the callback of a pending timer
RunCallback(st, timer) ==
  CASE timer.kind = "updateSynths" -> UpdateSynthsCallback(st, timer)
    [] timer.kind = "playMelodyNote" -> PlayMelodyNoteCallback(st, timer)
    [] timer.kind = "playChord" -> PlayChordCallback(st, timer)
    [] timer.kind = "stopChord" -> StopChordCallback(st, timer)

(***************************************************************************)
(* State                                                                   *)
(***************************************************************************)
VARIABLES
  selectedScale,        \* musicTheory.js: let selectedScale
  selectedRoot,         \* musicTheory.js: let selectedRoot
  octave,               \* musicTheory.js: let octave
  voiceLeadingEnabled,  \* musicTheory.js: let voiceLeadingEnabled
  lastChordVoicing,     \* musicTheory.js: let lastChordVoicing (<< >> is null)
  selectedSound,        \* musicTheory.js: let selectedSound
  audioStarted,         \* window.audioStarted
  melodySynth,          \* audio.js: let melodySynth
  harmonySynth,         \* audio.js: let harmonySynth
  leftHandIsPlaying,    \* audio.js: let leftHandIsPlaying
  rightHandIsPlaying,   \* audio.js: let rightHandIsPlaying
  currentMelodyNote,    \* audio.js: let currentMelodyNote
  currentChord,         \* audio.js: let currentChord
  lastMelodyNote,       \* audio.js: let lastMelodyNote
  lastChord,            \* audio.js: let lastChord
  currentInstrumentType,\* audio.js: let currentInstrumentType
  currentRealInstrument,\* audio.js: let currentRealInstrument
  samplers,             \* realInstruments.js: realInstrumentSamplers, each sampler's sounding keys
  currentInstrument,    \* realInstruments.js: let currentInstrument (the connected sampler)
  leftHandVolume,       \* audio.js: let leftHandVolume, in tenths of a dB
  rightHandVolume,      \* audio.js: let rightHandVolume, in tenths of a dB
  currentPinchDistance, \* audio.js: let currentPinchDistance, in thousandths
  sinceEffect,          \* audio.js: now - lastEffectChangeTime, up to EFFECT_CHANGE_THRESHOLD
  effectIntensity,      \* the effectIntensity last ramped to, in ninetieths
  melodyVelocity,       \* the adjustedVelocity of the latest sampled note
  harmonyVelocity,      \* the adjustedVelocity of the latest sampled chord
  effectAge,            \* history: the time since reverb and delay were last ramped
  timers,               \* the pending setTimeout callbacks, in the order they were set
  calls,                \* the backend calls of the last operation, in order
  sinceFrame,           \* handTracking.js: now - lastProcessTime, up to THROTTLE_INTERVAL
  processingFrame,      \* handTracking.js: let processingFrame
  inFlight,             \* history: the onFrame calls that are waiting for hands.send
  prevChordNotes,       \* history: the chord.notes of the latest playChord call
  frames,               \* history: the number of frames processed
  switches,             \* history: the number of sound selections
  arg,                  \* the arguments of the mapping call under study
  ret                   \* the last operation: its arguments and what it returned

theoryVars == << selectedScale, selectedRoot, octave, voiceLeadingEnabled, lastChordVoicing,
                 selectedSound >>

audioVars == << audioStarted, melodySynth, harmonySynth, leftHandIsPlaying,
                rightHandIsPlaying, currentMelodyNote, currentChord, lastMelodyNote,
                lastChord, currentInstrumentType, currentRealInstrument, samplers,
                currentInstrument, timers, calls, sinceFrame, prevChordNotes,
                frames, switches, processingFrame, inFlight, leftHandVolume,
                rightHandVolume, currentPinchDistance, sinceEffect, effectIntensity,
                melodyVelocity, harmonyVelocity, effectAge >>

gateVars == << processingFrame, inFlight >>

levelVars == << leftHandVolume, rightHandVolume, currentPinchDistance, effectIntensity,
                melodyVelocity, harmonyVelocity >>

vars == << theoryVars, audioVars, arg, ret >>

\* the root notes of the root selector (ui.js: the notes array)
Roots == { notes[i] : i \in 1..Len(notes) }

\* the octaves of the octave selector (ui.js: for i = 2..6)
MinOctave == 2

MaxOctave == 6

Octaves == MinOctave..MaxOctave

\* hand positions handed to the mapping functions, a little beyond [0, 1]
YInputs == (-1)..(YDen + 1)

YGrid == 0..YDen

NoOp == [ op |-> "none" ]

NoArg == [ k |-> 0 ]

\* handTracking.js: the least time between two processed frames, in ms
THROTTLE_INTERVAL == 16

\* the audio variables after the modules are loaded
InitAudio ==
  /\ audioStarted = FALSE
  /\ melodySynth = NoSynth
  /\ harmonySynth = NoSynth
  /\ leftHandIsPlaying = FALSE
  /\ rightHandIsPlaying = FALSE
  /\ currentMelodyNote = NoNote
  /\ currentChord = NoChord
  /\ lastMelodyNote = NoNote
  /\ lastChord = NoChord
  /\ currentInstrumentType = "synthetic"
  /\ currentRealInstrument = Null
  /\ samplers = << >>
  /\ currentInstrument = Null
  /\ timers = << >>
  /\ calls = << >>
  /\ sinceFrame = THROTTLE_INTERVAL
  /\ prevChordNotes = << >>
  /\ frames = 0
  /\ switches = 0
  /\ processingFrame = FALSE
  /\ inFlight = 0
  /\ leftHandVolume = 0
  /\ rightHandVolume = 0
  /\ currentPinchDistance = RestPinch
  /\ sinceEffect = EFFECT_CHANGE_THRESHOLD
  /\ effectIntensity = 0
  /\ melodyVelocity = 0
  /\ harmonyVelocity = 0
  /\ effectAge = EFFECT_CHANGE_THRESHOLD

(***************************************************************************)
(* Operations of musicTheory.js                                            *)
(***************************************************************************)
\* getNoteFromPosition(y, isArpeggioMode, currentChord), y = k / YDen
NoteFromPosition(k, isArpeggioMode, hasChordNotes) ==
  LET r == getNoteFromPosition(k, isArpeggioMode, hasChordNotes,
                               selectedScale, selectedRoot, octave)
  IN  /\ ret' = [ op |-> "getNoteFromPosition", k |-> k,
                  arpeggio |-> isArpeggioMode /\ hasChordNotes,
                  threw |-> r.threw, note |-> r.note ]
      /\ UNCHANGED << theoryVars, audioVars, arg >>

\* getChordFromPosition(y, use7thChords), y = k / YDen
ChordFromPosition(k, use7thChords) ==
  LET r == getChordFromPosition(k, use7thChords, selectedScale, selectedRoot, octave,
                                voiceLeadingEnabled, lastChordVoicing)
  IN  /\ lastChordVoicing' = r.voicing
      /\ ret' = [ op |-> "getChordFromPosition", k |-> k, use7th |-> use7thChords,
                  chord |-> r.chord, lead |-> r.lead ]
      /\ UNCHANGED << selectedScale, selectedRoot, octave, voiceLeadingEnabled,
                      selectedSound, audioVars, arg >>

\* the scaleMap of updateMusicParameters: scaleMap[scale] || scale
NormalizeScale(scale) ==
  CASE scale = "minorblues" -> "minorBlues"
    [] scale = "majorblues" -> "majorBlues"
    [] scale = "pentatonicmajor" -> "pentatonic"
    [] scale = "pentatonicminor" -> "pentatonicMinor"
    [] OTHER -> scale

\* a falsy newOctave argument (null, or 0)
NoOctave == 0

\* updateMusicParameters(scale, root, newOctave, sound); Null and NoOctave are
\* the falsy arguments
UpdateMusicParameters(scale, root, newOctave, sound) ==
  /\ selectedScale' = IF scale # Null THEN NormalizeScale(scale) ELSE selectedScale
  /\ lastChordVoicing' = IF scale # Null THEN << >> ELSE lastChordVoicing
  /\ selectedRoot' = IF root # Null THEN root ELSE selectedRoot
  /\ octave' = IF newOctave # NoOctave THEN newOctave ELSE octave
  /\ selectedSound' = IF sound # Null THEN sound ELSE selectedSound
  /\ ret' = [ op |-> "updateMusicParameters", scale |-> scale, root |-> root,
              newOctave |-> newOctave, sound |-> sound,
              prevScale |-> selectedScale, prevRoot |-> selectedRoot ]
  /\ UNCHANGED << voiceLeadingEnabled, audioVars, arg >>

\* resetVoiceLeading()
ResetVoiceLeading ==
  /\ lastChordVoicing' = << >>
  /\ ret' = [ op |-> "resetVoiceLeading" ]
  /\ UNCHANGED << selectedScale, selectedRoot, octave, voiceLeadingEnabled,
                  selectedSound, audioVars, arg >>

\* setVoiceLeadingEnabled(enabled)
SetVoiceLeadingEnabled(enabled) ==
  /\ voiceLeadingEnabled' = enabled
  /\ lastChordVoicing' = IF ~enabled THEN << >> ELSE lastChordVoicing
  /\ ret' = [ op |-> "setVoiceLeadingEnabled", enabled |-> enabled ]
  /\ UNCHANGED << selectedScale, selectedRoot, octave, selectedSound, audioVars, arg >>

(***************************************************************************)
(* Operations of audio.js and handTracking.js                              *)
(***************************************************************************)
\* the audio variables, and the selected sound they read, as the record the
\* operations work on; calls starts empty for the operation
Audio ==
  [ audioStarted |-> audioStarted, melodySynth |-> melodySynth,
    harmonySynth |-> harmonySynth, leftHandIsPlaying |-> leftHandIsPlaying,
    rightHandIsPlaying |-> rightHandIsPlaying, currentMelodyNote |-> currentMelodyNote,
    currentChord |-> currentChord, lastMelodyNote |-> lastMelodyNote,
    lastChord |-> lastChord, currentInstrumentType |-> currentInstrumentType,
    currentRealInstrument |-> currentRealInstrument, samplers |-> samplers,
    currentInstrument |-> currentInstrument, timers |-> timers, calls |-> << >>,
    selectedSound |-> selectedSound, leftHandVolume |-> leftHandVolume,
    rightHandVolume |-> rightHandVolume, currentPinchDistance |-> currentPinchDistance,
    sinceEffect |-> sinceEffect, effectIntensity |-> effectIntensity,
    melodyVelocity |-> melodyVelocity, harmonyVelocity |-> harmonyVelocity ]

\* the audio variables take the values an operation leaves
SetAudio(st) ==
  /\ audioStarted' = st.audioStarted
  /\ melodySynth' = st.melodySynth
  /\ harmonySynth' = st.harmonySynth
  /\ leftHandIsPlaying' = st.leftHandIsPlaying
  /\ rightHandIsPlaying' = st.rightHandIsPlaying
  /\ currentMelodyNote' = st.currentMelodyNote
  /\ currentChord' = st.currentChord
  /\ lastMelodyNote' = st.lastMelodyNote
  /\ lastChord' = st.lastChord
  /\ currentInstrumentType' = st.currentInstrumentType
  /\ currentRealInstrument' = st.currentRealInstrument
  /\ samplers' = st.samplers
  /\ currentInstrument' = st.currentInstrument
  /\ timers' = st.timers
  /\ calls' = st.calls
  /\ leftHandVolume' = st.leftHandVolume
  /\ rightHandVolume' = st.rightHandVolume
  /\ currentPinchDistance' = st.currentPinchDistance
  /\ sinceEffect' = st.sinceEffect
  /\ effectIntensity' = st.effectIntensity
  /\ melodyVelocity' = st.melodyVelocity
  /\ harmonyVelocity' = st.harmonyVelocity

\* what a claim about one operation compares: the hands' playing state
PlayingState(st) ==
  [ leftHandIsPlaying |-> st.leftHandIsPlaying,
    rightHandIsPlaying |-> st.rightHandIsPlaying,
    currentMelodyNote |-> st.currentMelodyNote,
    currentChordNotes |-> st.currentChord.notes ]

\* a detected hand: MediaPipe's handedness label, the wrist height k / YDen,
\* the wrist's distance from the centre Math.abs(wrist.x - 0.5) and the
\* distance of the thumb tip from the index tip
GestureHand(label, k, distanceFromCenter, pinchDist) ==
  [ label |-> label, k |-> k, distanceFromCenter |-> distanceFromCenter,
    pinchDist |-> pinchDist ]

\* a hand halfway between the centre and the edge, its fingers at the
\* default pinch distance
RestDistance == 5

Hand(label, k) == GestureHand(label, k, RestDistance, RestPinch)

\* the state the loop of onHandResults carries from hand to hand; threw: an
\* error of a backend call left the function it was made in
World(st, voicing, chordNotes, note) ==
  [ st |-> st, voicing |-> voicing, chordNotes |-> chordNotes, note |-> note,
    threw |-> FALSE ]

\* onHandResults: the loop over the detected hands.  A hand not labelled
\* 'Left' is the chord hand, a hand labelled 'Left' the melody hand.
\* the chord hand: r is the chord getChordFromPosition(wrist.y) returned
ChordHand(w, hand, r, fault) ==
  IF w.st.audioStarted
  THEN World(playChord(setVolume(w.st, "left", hand.distanceFromCenter, hand.pinchDist),
                       r.chord, hand.pinchDist, fault),
             r.voicing, r.chord.notes, w.note)
  ELSE World(w.st, r.voicing, w.chordNotes, w.note)

\* the melody hand: r is the note getNoteFromPosition(wrist.y, 'major') returned
MelodyHand(w, hand, r, fault) ==
  IF w.st.audioStarted
  THEN World(playMelodyNote(setVolume(w.st, "right", hand.distanceFromCenter,
                                      hand.pinchDist),
                            r.note, hand.pinchDist, fault),
             w.voicing, w.chordNotes, r.note)
  ELSE w

RECURSIVE ProcessHands(_, _, _, _)
ProcessHands(w, hands, i, fault) ==
  IF i > Len(hands) THEN w
  ELSE IF hands[i].label # "Left"
  THEN ProcessHands(
         ChordHand(w, hands[i],
                   getChordFromPosition(hands[i].k, FALSE, selectedScale, selectedRoot,
                                        octave, voiceLeadingEnabled, w.voicing), fault),
         hands, i + 1, fault)
  ELSE ProcessHands(
         MelodyHand(w, hands[i],
                    getNoteFromPosition(hands[i].k, TRUE, FALSE,
                                        selectedScale, selectedRoot, octave), fault),
         hands, i + 1, fault)

\* onHandResults(results): the hands of the frame in the order of the results.
\* For each hand setVolume comes first; what updateGestureParameters writes to
\* currentPinchDistance is overwritten by playChord / playMelodyNote in the
\* same pass of the loop, before anything reads it.
onHandResults(st, voicing, hands, fault) ==
  LET w == World(st, voicing, << >>, NoNote)
  IN  IF Len(hands) > 0 THEN ProcessHands(w, hands, 1, fault)
      ELSE IF ~st.audioStarted THEN w
      ELSE LET melody == stopMelody(st, fault)
           IN  IF melody.threw THEN [ w EXCEPT !.st = melody.st, !.threw = TRUE ]
               ELSE [ w EXCEPT !.st = stopChord(melody.st, fault).st,
                               !.threw = stopChord(melody.st, fault).threw ]

\* SkipsFrame without the test of the flag
SkipsFrameWhileIdleOnly(processing, elapsed) == elapsed < THROTTLE_INTERVAL

\* the test of onFrame that skips a frame: a pass is in flight, or the last
\* accepted pass started less than THROTTLE_INTERVAL ago
SkipsFrame(processing, elapsed) == processing \/ elapsed < THROTTLE_INTERVAL

\* the tracker hands its results to onHandResults; w is what onHandResults leaves
Delivered(w, hands, fault) ==
      /\ SetAudio(w.st)
      /\ effectAge' = IF EffectCalls(w.st.calls) # {} THEN 0 ELSE effectAge
      /\ lastChordVoicing' = w.voicing
      /\ prevChordNotes' = IF w.chordNotes # << >> THEN w.chordNotes ELSE prevChordNotes
      /\ ret' = [ op |-> "onHandResults", hands |-> hands, fault |-> fault,
                  chordNotes |-> w.chordNotes, note |-> w.note, threw |-> w.threw ]
      /\ UNCHANGED << selectedScale, selectedRoot, octave, voiceLeadingEnabled,
                      selectedSound, switches, arg >>

\* camera onFrame and onHandResults in one step: a frame is accepted, tracked
\* and processed
Processed(w, hands, fault) ==
      /\ ~SkipsFrame(processingFrame, sinceFrame)
      /\ sinceFrame' = 0
      /\ frames' = frames + 1
      /\ UNCHANGED gateVars
      /\ Delivered(w, hands, fault)

\* a camera frame with the detected hands; fault: the backend calls that throw
OnFrame(hands, fault) ==
  Processed(onHandResults(Audio, lastChordVoicing, hands, fault), hands, fault)

\* camera onFrame up to its await, for a frame that arrives at any time.
\* ready: videoElement.readyState >= 2; with no video data nothing is awaited
\* and processingFrame is false again when the call returns.
BeginPass(ready) ==
  /\ ret' = [ op |-> "onFrame", ready |-> ready,
              accepted |-> ~SkipsFrame(processingFrame, sinceFrame) ]
  /\ IF SkipsFrame(processingFrame, sinceFrame)
     THEN UNCHANGED << sinceFrame, frames, processingFrame, inFlight >>
     ELSE /\ sinceFrame' = 0
          /\ frames' = frames + 1
          /\ processingFrame' = ready
          /\ inFlight' = IF ready THEN inFlight + 1 ELSE inFlight
  /\ UNCHANGED << theoryVars, audioStarted, melodySynth, harmonySynth, leftHandIsPlaying,
                  rightHandIsPlaying, currentMelodyNote, currentChord, lastMelodyNote,
                  lastChord, currentInstrumentType, currentRealInstrument, samplers,
                  currentInstrument, timers, calls, prevChordNotes, switches, levelVars,
                  sinceEffect, effectAge, arg >>

\* hands.send resolves: onHandResults ran on the results, and the onFrame call
\* that awaited it ends
TrackerReturned(w, hands) ==
  /\ inFlight > 0
  /\ processingFrame' = FALSE
  /\ inFlight' = inFlight - 1
  /\ Delivered(w, hands, "none")
  /\ UNCHANGED << sinceFrame, frames >>

TrackerReturns(hands) ==
  TrackerReturned(onHandResults(Audio, lastChordVoicing, hands, "none"), hands)

\* hands.send rejects: the catch of onFrame logs the error, and the call ends
TrackerFails ==
  /\ inFlight > 0
  /\ processingFrame' = FALSE
  /\ inFlight' = inFlight - 1
  /\ ret' = [ op |-> "sendFailed" ]
  /\ UNCHANGED << theoryVars, audioStarted, melodySynth, harmonySynth, leftHandIsPlaying,
                  rightHandIsPlaying, currentMelodyNote, currentChord, lastMelodyNote,
                  lastChord, currentInstrumentType, currentRealInstrument, samplers,
                  currentInstrument, timers, calls, sinceFrame, prevChordNotes, frames,
                  switches, levelVars, sinceEffect, effectAge, arg >>

\* the start button: setupAudio()
StartAudio ==
  /\ ~audioStarted
  /\ SetAudio(setupAudio(Audio, selectedSound))
  /\ ret' = [ op |-> "setupAudio" ]
  /\ UNCHANGED << theoryVars, sinceFrame, prevChordNotes, frames, switches, gateVars,
                  effectAge, arg >>

\* the sound selector: updateMusicParameters(null, null, null, sound); updateSynths()
SelectSound(sound, fault) ==
  /\ selectedSound' = sound
  /\ SetAudio(updateSynths([ Audio EXCEPT !.selectedSound = sound ], sound, fault))
  /\ switches' = switches + 1
  /\ ret' = [ op |-> "updateSynths", sound |-> sound, fault |-> fault ]
  /\ UNCHANGED << selectedScale, selectedRoot, octave, voiceLeadingEnabled,
                  lastChordVoicing, sinceFrame, prevChordNotes, frames, gateVars,
                  effectAge, arg >>

\* the timers that are due, and the one the event loop runs first
DueTimers == { i \in 1..Len(timers) : timers[i].rem = 0 }

FirstDue == CHOOSE i \in DueTimers : \A j \in DueTimers : i <= j

Without(seq, i) == [ j \in 1..(Len(seq) - 1) |-> IF j < i THEN seq[j] ELSE seq[j + 1] ]

\* the event loop runs the callback of a timer that is due
FireTimer ==
  /\ DueTimers # {}
  /\ LET timer == timers[FirstDue]
         st == RunCallback([ Audio EXCEPT !.timers = Without(timers, FirstDue) ], timer)
     IN  /\ SetAudio(st)
         /\ ret' = [ op |-> "timer", kind |-> timer.kind,
                     whileSounding |-> timer.whileSounding ]
  /\ UNCHANGED << theoryVars, sinceFrame, prevChordNotes, frames, switches, gateVars,
                  effectAge, arg >>

\* the instants at which something can happen next: a timer falls due, or
\* the frame gate opens
TimeSteps ==
  { timers[i].rem : i \in 1..Len(timers) } \cup { THROTTLE_INTERVAL - sinceFrame }

\* time passes, no further than the next timer
Advance(d) ==
  /\ d > 0
  /\ \A i \in 1..Len(timers) : timers[i].rem >= d
  /\ timers' = [ i \in 1..Len(timers) |-> [ timers[i] EXCEPT !.rem = @ - d ] ]
  /\ sinceFrame' = Min(THROTTLE_INTERVAL, sinceFrame + d)
  /\ sinceEffect' = Min(EFFECT_CHANGE_THRESHOLD, sinceEffect + d)
  /\ effectAge' = Min(EFFECT_CHANGE_THRESHOLD, effectAge + d)
  /\ ret' = [ op |-> "advance" ]
  /\ UNCHANGED << theoryVars, audioStarted, melodySynth, harmonySynth, leftHandIsPlaying,
                  rightHandIsPlaying, currentMelodyNote, currentChord, lastMelodyNote,
                  lastChord, currentInstrumentType, currentRealInstrument, samplers,
                  currentInstrument, calls, prevChordNotes, frames, switches, gateVars,
                  levelVars, arg >>

(***************************************************************************)
(* The melody mapping applied to every root, scale, octave and position    *)
(***************************************************************************)
InitMelody ==
  /\ selectedScale \in ScaleNames \cup { UnknownScale }
  /\ selectedRoot \in Roots \cup { UnknownRoot }
  /\ octave \in Octaves
  /\ voiceLeadingEnabled = TRUE
  /\ lastChordVoicing = << >>
  /\ selectedSound = "pad"
  /\ InitAudio
  /\ arg \in [ k : YInputs, isArpeggioMode : BOOLEAN, hasChordNotes : BOOLEAN ]
  /\ ret = NoOp

CallNote == NoteFromPosition(arg.k, arg.isArpeggioMode, arg.hasChordNotes)

NextMelody == CallNote

SpecMelody == InitMelody /\ [][NextMelody]_vars

(***************************************************************************)
(* The chord mapping applied to every root, scale, octave and position     *)
(***************************************************************************)
InitChord ==
  /\ selectedScale \in ScaleNames \cup { UnknownScale }
  /\ selectedRoot \in Roots \cup { UnknownRoot }
  /\ octave \in Octaves
  /\ voiceLeadingEnabled \in BOOLEAN
  /\ lastChordVoicing = << >>
  /\ selectedSound = "pad"
  /\ InitAudio
  /\ arg \in [ k : YInputs, use7thChords : BOOLEAN ]
  /\ ret = NoOp

CallChord == ChordFromPosition(arg.k, arg.use7thChords)

NextChord == CallChord

SpecChord == InitChord /\ [][NextChord]_vars

(***************************************************************************)
(* The music parameters and the voice leading state under the controls:    *)
(* chords of the left hand, the selectors of the control panel, a preset   *)
(***************************************************************************)
\* every FrameStep-th grid position is a position of the left hand
FrameStep == 2

FrameYs == { k \in YGrid : k % FrameStep = 0 }

\* the values the selectors and the presets pass to updateMusicParameters
ParamScales == { "major", "minor", "minorblues" }

ParamRoots == { "C", "G" }

ParamOctaves == { 3, 4 }

ParamSounds == { "pad", "realPiano" }

\* the argument lists of the callers: one selector at a time (ui.js), or all
\* four at once (presetManager.js applySettings)
ParamCalls ==
  { << s, Null, NoOctave, Null >> : s \in ParamScales } \cup
  { << Null, r, NoOctave, Null >> : r \in ParamRoots } \cup
  { << Null, Null, o, Null >> : o \in ParamOctaves } \cup
  { << Null, Null, NoOctave, snd >> : snd \in ParamSounds } \cup
  (ParamScales \X ParamRoots \X ParamOctaves \X ParamSounds)

InitTheory ==
  /\ selectedScale = "major"
  /\ selectedRoot = "C"
  /\ octave = 4
  /\ voiceLeadingEnabled = TRUE
  /\ lastChordVoicing = << >>
  /\ selectedSound = "pad"
  /\ InitAudio
  /\ arg = NoArg
  /\ ret = NoOp

LeftHandChord == \E k \in FrameYs : ChordFromPosition(k, FALSE)

\* the audio is never started here, so the updateSynths() that follows a
\* sound selection returns at once (no synths)
SelectParameters == \E c \in ParamCalls : UpdateMusicParameters(c[1], c[2], c[3], c[4])

ToggleVoiceLeading == \E enabled \in BOOLEAN : SetVoiceLeadingEnabled(enabled)

NextTheory ==
  \/ LeftHandChord
  \/ SelectParameters
  \/ ResetVoiceLeading
  \/ ToggleVoiceLeading

SpecTheory == InitTheory /\ [][NextTheory]_vars

(***************************************************************************)
(* The voice lifecycle: the start button, camera frames, the sound         *)
(* selector, the deferred callbacks and the passing of time                *)
(***************************************************************************)
\* the wrist heights of the hands in the frames: the bottom and the middle
HandYs == { YDen, YDen \div 2 }

\* the frames: no hand, one hand, or the chord hand and the melody hand
Frames ==
  { << >> } \cup
  { << Hand(label, k) >> : label \in { "Left", "Right" }, k \in HandYs } \cup
  { << Hand("Right", k1), Hand("Left", k2) >> : k1 \in HandYs, k2 \in HandYs }

\* the sounds of the sound selector the model selects: a synthetic and a
\* sampled preset
Sounds == { "pad", "realPiano" }

\* the kinds of backend call that can throw during one operation
Faults == { "none", "attack", "release" }

\* the behaviours process at most MaxFrames frames and select a sound at
\* most MaxSwitches times
MaxFrames == 3

MaxSwitches == 1

InitLifecycle ==
  /\ selectedScale = "major"
  /\ selectedRoot = "C"
  /\ octave = 4
  /\ voiceLeadingEnabled = TRUE
  /\ lastChordVoicing = << >>
  /\ selectedSound = "pad"
  /\ InitAudio
  /\ arg = NoArg
  /\ ret = NoOp

Frame ==
  /\ frames < MaxFrames
  /\ \E hands \in Frames : OnFrame(hands, "none")

ChooseSound ==
  /\ switches < MaxSwitches
  /\ \E sound \in Sounds : SelectSound(sound, "none")

TimePasses == \E d \in TimeSteps : Advance(d)

NextLifecycle ==
  \/ StartAudio
  \/ Frame
  \/ ChooseSound
  \/ FireTimer
  \/ TimePasses

SpecLifecycle == InitLifecycle /\ [][NextLifecycle]_vars

\* the same, with backend calls that throw
FaultyFrame ==
  /\ frames < MaxFrames
  /\ \E hands \in Frames, fault \in Faults : OnFrame(hands, fault)

FaultyChooseSound ==
  /\ switches < MaxSwitches
  /\ \E sound \in Sounds, fault \in Faults : SelectSound(sound, fault)

NextFaulty ==
  \/ StartAudio
  \/ FaultyFrame
  \/ FaultyChooseSound
  \/ FireTimer
  \/ TimePasses

SpecFaulty == InitLifecycle /\ [][NextFaulty]_vars

(***************************************************************************)
(* Properties of the melody mapping (SpecMelody)                           *)
(***************************************************************************)
\* the pitch of a returned note name, read back with the code's parser
Pitch(note) == noteNameToMidi(note)

PitchClass(note) == Pitch(note) % 12

\* the pitch classes of the selected scale transposed to the selected root
ScalePitchClasses(scale, root) ==
  { (IndexOf(notes, root) + scales[scale][i]) % 12 : i \in 1..Len(scales[scale]) }

\* a regular (non-arpeggio) melody call on a configured root and scale, y in [0, 1]
MelodyCall ==
  /\ ret.op = "getNoteFromPosition"
  /\ ~ret.arpeggio
  /\ ret.k \in YGrid
  /\ selectedRoot \in Roots
  /\ selectedScale \in ScaleNames

\* C1: for every root of the 12, every built-in scale, every octave and every
\* y in [0, 1], the note getNoteFromPosition returns has a pitch class equal to
\* (root + s) mod 12 for an offset s of the selected scale.
C1_NoteInScale ==
  MelodyCall =>
    /\ ~ret.threw
    /\ PitchClass(ret.note) \in ScalePitchClasses(selectedScale, selectedRoot)

\* the highest position of a chromatic scale was mapped, on a sharp root
C1_Witness ==
  /\ MelodyCall
  /\ selectedRoot = "F#"
  /\ selectedScale = "chromatic"
  /\ octave = MaxOctave
  /\ MelodyPosition(ret.k, selectedScale) = 18
  /\ ret.note = Note("B", 7)

\* C2: the melody mapping is inverted and monotone: a call at y1 has a degree
\* and a pitch not lower than those of any y2 > y1 under the same root, scale
\* and octave; y = 1 gives degree 0 and y = 0 the highest configured degree.
C2_InvertedMonotone ==
  (ret.op = "getNoteFromPosition" /\ ~ret.arpeggio /\ ret.k \in YGrid) =>
    /\ \A k2 \in YGrid :
         k2 > ret.k =>
           /\ MelodyPosition(ret.k, selectedScale) >= MelodyPosition(k2, selectedScale)
           /\ Pitch(ret.note) >=
                Pitch(getNoteFromPosition(k2, FALSE, FALSE,
                                          selectedScale, selectedRoot, octave).note)
    /\ ret.k = YDen => MelodyPosition(ret.k, selectedScale) = 0
    /\ ret.k = 0 =>
         MelodyPosition(ret.k, selectedScale)
           = Max(14, Len(ScaleArray(selectedScale)) + 7) - 1

\* a call in the middle of the range that lies strictly between its neighbours
C2_Witness ==
  /\ MelodyCall
  /\ selectedScale = "major"
  /\ selectedRoot = "C"
  /\ octave = 4
  /\ ret.k * 2 = YDen
  /\ MelodyPosition(ret.k, selectedScale) = 8
  /\ ret.note = Note("C", 5)
  /\ MelodyPosition(0, selectedScale) = 13
  /\ MelodyPosition(YDen, selectedScale) = 0

\* a note name the samplers and synths can play: a spelling of one of the
\* two tables followed by an octave digit
WellFormedNote(note) ==
  /\ (IndexOf(notes, note.name) # -1 \/ IndexOf(notesWithFlats, note.name) # -1)
  /\ note.oct \in 0..9

\* C8 (as claimed): getNoteFromPosition and getChordFromPosition fail soft: for
\* every y, scale name, root and argument combination they return a well-formed
\* note / chord and never throw.
C8_FailSoft ==
  /\ ret.op = "getNoteFromPosition" => (~ret.threw /\ WellFormedNote(ret.note))
  /\ ret.op = "getChordFromPosition" =>
       \A i \in 1..Len(ret.chord.notes) : WellFormedNote(ret.chord.notes[i])

(***************************************************************************)
(* Properties of the chord mapping (SpecChord)                             *)
(***************************************************************************)
\* C10 (as claimed): higher left-hand positions play higher chords: the root
\* pitch (midiBase) of the chord for y1 is >= that of the chord for any
\* y2 > y1, for every root and built-in scale (compared where both chords
\* carry a midiBase).
C10_HigherHandHigherChord ==
  (/\ ret.op = "getChordFromPosition"
   /\ ret.k \in YGrid
   /\ selectedRoot \in Roots
   /\ selectedScale \in ScaleNames
   /\ ~ret.chord.error) =>
    \A k2 \in YGrid :
      LET other == getChordFromPosition(k2, ret.use7th, selectedScale, selectedRoot,
                                        octave, voiceLeadingEnabled, lastChordVoicing).chord
      IN  (k2 > ret.k /\ ~other.error) => ret.chord.midiBase >= other.midiBase

(***************************************************************************)
(* Properties of the voice leading state (SpecTheory)                      *)
(***************************************************************************)
\* the first inversion applyFastVoiceLeading weighs against the root position
FirstInversionOf(newTriad) == SortNum(<< newTriad[2], newTriad[3], newTriad[1] + 12 >>)

\* the candidate the voice-leading step did not return
NotReturned(lead) ==
  IF lead.out = lead.newTriad THEN FirstInversionOf(lead.newTriad) ELSE lead.newTriad

\* the last operation voiced a chord against a previous voicing
VoiceLed == ret.op = "getChordFromPosition" /\ ret.lead.called

\* C3 (as claimed): on every call of the voice-leading step with a previous
\* voicing present, the movement from the previous voicing to the returned
\* triad is <= the movement to the candidate that was not returned.
C3_ChosenMovesLeast ==
  VoiceLed =>
    Movement(ret.lead.out, ret.lead.lastTriad)
      <= Movement(NotReturned(ret.lead), ret.lead.lastTriad)

\* C3 (amended): with a previous voicing present, the step returns the root
\* position whenever the root position moves at most 12 semitones in total;
\* when it moves more, the returned triad moves no more than the candidate
\* that was not returned.
C3_ChosenMovesLeastBeyondOctave ==
  VoiceLed =>
    IF Movement(ret.lead.newTriad, ret.lead.lastTriad) <= 12
    THEN ret.lead.out = ret.lead.newTriad
    ELSE Movement(ret.lead.out, ret.lead.lastTriad)
           <= Movement(NotReturned(ret.lead), ret.lead.lastTriad)

\* the step weighed both candidates and returned the first inversion
C3_Witness ==
  /\ VoiceLed
  /\ Movement(ret.lead.newTriad, ret.lead.lastTriad) > 12
  /\ ret.lead.out = FirstInversionOf(ret.lead.newTriad)
  /\ ret.lead.out # ret.lead.newTriad
  /\ lastChordVoicing = ret.lead.out

\* C9 (as claimed): whenever updateMusicParameters changes the scale or the
\* root, the remembered last chord voicing is reset (empty) when it returns.
C9_KeyChangeResetsVoicing ==
  (/\ ret.op = "updateMusicParameters"
   /\ (ret.prevScale # selectedScale \/ ret.prevRoot # selectedRoot)) =>
    lastChordVoicing = << >>

(***************************************************************************)
(* Properties of the voice lifecycle (SpecLifecycle, SpecFaulty)           *)
(***************************************************************************)
IsAttack(call) == call.fn = "triggerAttack"

IsRelease(call) == call.fn \in { "triggerRelease", "releaseAll" }

\* the releases, the failed calls and the voices created in a log of calls
ReleaseCalls(log) == { i \in 1..Len(log) : IsRelease(log[i]) }

FailedCalls(log) == { i \in 1..Len(log) : ~log[i].ok }

NewCallsOn(log, voice) == { i \in 1..Len(log) : log[i].fn = "new" /\ log[i].on = voice }

\* the attacks and releases an operation issued from one function
SoundCallsBy(log, by) ==
  { i \in 1..Len(log) : log[i].by = by /\ (IsAttack(log[i]) \/ IsRelease(log[i])) }

\* the melody hand (labelled 'Left') / the chord hand is in the frame
MelodyHandIn(hands) == \E i \in 1..Len(hands) : hands[i].label = "Left"

ChordHandIn(hands) == \E i \in 1..Len(hands) : hands[i].label # "Left"

\* C4 (as claimed)  a playMelodyNote / playChord call while the hand is
\* Sounding, with the note / the chord notes of the previous call, issues no
\* attack and no release, on the synthetic and on the sampled backend, at any
\* time after the previous call.
C4_RepeatIsSilent ==
  [][ ret'.op = "onHandResults" =>
        /\ (/\ MelodyHandIn(ret'.hands)
            /\ rightHandIsPlaying
            /\ ret'.note = lastMelodyNote) =>
             SoundCallsBy(calls', "playMelodyNote") = {}
        /\ (/\ ChordHandIn(ret'.hands)
            /\ leftHandIsPlaying
            /\ ret'.chordNotes = prevChordNotes) =>
             SoundCallsBy(calls', "playChord") = {} ]_vars

\* nothing is attacked on a synth or on a sampler
NoVoiceSounding(melody, harmony, samplerKeys) ==
  /\ melody.attacked = {}
  /\ harmony.attacked = {}
  /\ \A i \in DOMAIN samplerKeys : samplerKeys[i] = {}

\* C5 (as claimed)  updateSynths while a note or chord is sounding issues a
\* release (one per voice, no more), then after the deferred window exactly
\* one rebuild of each voice; afterwards no voice is sounding and both hands
\* are Idle, whatever frames were processed during the window.
C5_SwitchWhileSounding ==
  [][ /\ (/\ ret'.op = "updateSynths"
          /\ melodySynth.made
          /\ (rightHandIsPlaying \/ leftHandIsPlaying)) =>
           Cardinality(ReleaseCalls(calls')) \in { 1, 2 }
      /\ (/\ ret'.op = "timer"
          /\ ret'.kind = "updateSynths"
          /\ ret'.whileSounding) =>
           /\ Cardinality(NewCallsOn(calls', "melodySynth")) = 1
           /\ Cardinality(NewCallsOn(calls', "harmonySynth")) = 1
           /\ NoVoiceSounding(melodySynth', harmonySynth', samplers')
           /\ ~rightHandIsPlaying'
           /\ ~leftHandIsPlaying' ]_vars

\* C6 (as claimed)  when a backend attack or release call throws inside
\* playMelodyNote or playChord, the hands' playing flags and the current note
\* and chord after the call are those the call leaves when nothing throws.
C6_FailureAdvancesState ==
  [][ (/\ ret'.op = "onHandResults"
       /\ Len(ret'.hands) > 0
       /\ FailedCalls(calls') # {}) =>
        LET success == onHandResults(Audio, lastChordVoicing, ret'.hands, "none").st
        IN  /\ rightHandIsPlaying' = success.rightHandIsPlaying
            /\ leftHandIsPlaying' = success.leftHandIsPlaying
            /\ currentMelodyNote' = success.currentMelodyNote
            /\ currentChord'.notes = success.currentChord.notes ]_vars

\* C7 (as claimed)  in a processed frame, a Sounding hand that is not detected
\* receives a release and is Idle when the frame is done, also when the other
\* hand is detected in that frame.
C7_MissingHandStops ==
  [][ (ret'.op = "onHandResults" /\ audioStarted) =>
        /\ (rightHandIsPlaying /\ ~MelodyHandIn(ret'.hands)) =>
             /\ ~rightHandIsPlaying'
             /\ SoundCallsBy(calls', "stopMelody") # {}
        /\ (leftHandIsPlaying /\ ~ChordHandIn(ret'.hands)) =>
             /\ ~leftHandIsPlaying'
             /\ SoundCallsBy(calls', "stopChord") # {} ]_vars

(***************************************************************************)
(* Properties of the degree arithmetic of the two mappings                 *)
(***************************************************************************)
\* C12 (as claimed): for every degree d the melody mapping reaches and a scale
\* of n offsets, the returned note is the root plus scale[d mod n] semitones,
\* floor(d / n) octaves above the base octave; root C, scale major, degree 0,
\* octave 4 gives C4.
C12_DegreeModScaleLength ==
  MelodyCall =>
    LET scaleArray == scales[selectedScale]
        n == Len(scaleArray)
        d == MelodyPosition(ret.k, selectedScale)
    IN  /\ Pitch(ret.note)
             = (octave * 12) + IndexOf(notes, selectedRoot)
               + At0(scaleArray, d % n) + (12 * (d \div n))
        /\ (selectedRoot = "C" /\ selectedScale = "major" /\ octave = 4 /\ d = 0) =>
             ret.note = Note("C", 4)

\* C13 (as claimed): for every built-in scale, also one of fewer than 7
\* degrees, and every y in [0, 1], getChordFromPosition returns a regular
\* chord, never the fallback chord; its root is a degree of the selected
\* scale and its quality the progression-table entry of that degree.
C13_RegularChordOnDegree ==
  (/\ ret.op = "getChordFromPosition"
   /\ ret.k \in YGrid
   /\ selectedRoot \in Roots
   /\ selectedScale \in ScaleNames) =>
    /\ ~ret.chord.error
    /\ \E d \in 0..(Len(scales[selectedScale]) - 1) :
         /\ PitchClass(Note(ret.chord.root, 0))
              = (IndexOf(notes, selectedRoot) + At0(scales[selectedScale], d)) % 12
         /\ ~ret.use7th =>
              ret.chord.type
                = At0(CHORD_PROGRESSIONS[selectedScale],
                      d % Len(CHORD_PROGRESSIONS[selectedScale]))

(***************************************************************************)
(* Both mappings under every scale and octave of the selectors: the right  *)
(* hand's notes and the left hand's chords, one after another, with the    *)
(* voice leading on or off                                                 *)
(***************************************************************************)
\* the lowest and the highest root of the root selector
MappingRoots == { "C", "B" }

\* the lowest, the default and the highest octave of the octave selector
MappingOctaves == { MinOctave, 4, MaxOctave }

InitMapping ==
  /\ selectedScale \in ScaleNames
  /\ selectedRoot \in MappingRoots
  /\ octave \in MappingOctaves
  /\ voiceLeadingEnabled \in BOOLEAN
  /\ lastChordVoicing = << >>
  /\ selectedSound = "pad"
  /\ InitAudio
  /\ arg = NoArg
  /\ ret = NoOp

RightHandNote == \E k \in FrameYs : NoteFromPosition(k, FALSE, FALSE)

NextMapping ==
  \/ RightHandNote
  \/ LeftHandChord

SpecMapping == InitMapping /\ [][NextMapping]_vars

(***************************************************************************)
(* Properties of the emitted note names (SpecMapping)                      *)
(***************************************************************************)
\* a note name with an octave number in [1, 9] whose MIDI-equivalent number
\* is in [0, 127]
InPlayableRange(note) ==
  /\ note.oct \in 1..9
  /\ Pitch(note) \in 0..127

\* C17: every note name the melody and the chord mapping emit, for any root,
\* scale, octave setting, y and voicing, has an octave number in [1, 9] and a
\* MIDI-equivalent number in [0, 127].
C17_NotesInPlayableRange ==
  /\ ret.op = "getNoteFromPosition" => InPlayableRange(ret.note)
  /\ ret.op = "getChordFromPosition" =>
       \A i \in 1..Len(ret.chord.notes) : InPlayableRange(ret.chord.notes[i])

\* a chord of the lowest octave setting without voice leading, whose notes
\* start in octave 1
C17_Witness ==
  /\ ret.op = "getChordFromPosition"
  /\ octave = MinOctave
  /\ ~voiceLeadingEnabled
  /\ Len(ret.chord.notes) = 3
  /\ ret.chord.notes[1].oct = 1
  /\ ret.chord.midiBase = 12 + IndexOf(notes, ret.chord.root)

(***************************************************************************)
(* Properties of the error handling (SpecFaulty)                           *)
(***************************************************************************)
\* C16 (as claimed): a failure of a backend attack or release call made by
\* playMelodyNote, playChord, stopMelody, stopChord or updateSynths is caught
\* inside that operation: it is logged as a failed call and never reaches the
\* frame handler that called the operation.
C16_FailuresAreCaught ==
  (ret.op = "onHandResults" /\ FailedCalls(calls) # {}) => ~ret.threw

(***************************************************************************)
(* Properties of the order of release, dispose and creation                *)
(* (SpecLifecycle)                                                         *)
(***************************************************************************)
\* the last call on a voice before the i-th call of a log, 0 when there is none
LastCallOnBefore(log, voice, i) ==
  LET prior == { j \in 1..(i - 1) : log[j].on = voice }
  IN  IF prior = {} THEN 0 ELSE CHOOSE j \in prior : \A k \in prior : k <= j

\* a voice is disposed and then a voice is created in its place
DisposedThenCreated(log, voice) ==
  \E i \in 1..Len(log) :
    /\ log[i].on = voice
    /\ log[i].fn = "new"
    /\ LastCallOnBefore(log, voice, i) # 0
    /\ log[LastCallOnBefore(log, voice, i)].fn = "dispose"

\* a voice is disposed while notes attacked on it were not released: the
\* operation made no call on it before, or its last call was not a release
DisposedUnreleased(log, voice, attackedBefore) ==
  \E i \in 1..Len(log) :
    /\ log[i].on = voice
    /\ log[i].fn = "dispose"
    /\ IF LastCallOnBefore(log, voice, i) = 0 THEN attackedBefore # {}
       ELSE ~IsRelease(log[LastCallOnBefore(log, voice, i)])

\* a voice is created in place of one that was not disposed
CreatedUndisposed(log, voice) ==
  \E i \in 1..Len(log) :
    /\ log[i].on = voice
    /\ log[i].fn = "new"
    /\ \/ LastCallOnBefore(log, voice, i) = 0
       \/ log[LastCallOnBefore(log, voice, i)].fn # "dispose"

\* C14 (as claimed): every preset change, whatever the playing state and the
\* kind of the new preset, issues a release, and its deferred part disposes
\* and recreates the melody voice and the harmony voice and leaves both hands
\* Idle; a live voice is never changed in place.
C14_PresetChangeRebuilds ==
  [][ /\ (ret'.op = "updateSynths" /\ melodySynth.made /\ harmonySynth.made) =>
           ReleaseCalls(calls') # {}
      /\ (ret'.op = "timer" /\ ret'.kind = "updateSynths") =>
           /\ DisposedThenCreated(calls', "melodySynth")
           /\ DisposedThenCreated(calls', "harmonySynth")
           /\ ~rightHandIsPlaying'
           /\ ~leftHandIsPlaying' ]_vars

\* C15 (as claimed): in every operation and deferred callback, a voice is
\* disposed only after a release was issued on it since its last attack, and
\* a replacement voice is created only after the voice it replaces was
\* disposed.
C15_ReleaseBeforeDispose ==
  [][ ret'.op \in { "onHandResults", "updateSynths", "timer" } =>
        /\ ~DisposedUnreleased(calls', "melodySynth", melodySynth.attacked)
        /\ ~DisposedUnreleased(calls', "harmonySynth", harmonySynth.attacked)
        /\ ~CreatedUndisposed(calls', "melodySynth")
        /\ ~CreatedUndisposed(calls', "harmonySynth") ]_vars

(***************************************************************************)
(* The frame gate: camera frames at any time, the tracker's answers and    *)
(* failures, and the passing of time                                       *)
(***************************************************************************)
\* the steps of the clock between two events of the gate, in ms
GateSteps == { 1, THROTTLE_INTERVAL - 1 }

CameraFrame ==
  /\ frames < MaxFrames
  /\ \E ready \in BOOLEAN : BeginPass(ready)

TrackerAnswers == \E hands \in Frames : TrackerReturns(hands)

GateTimePasses == \E d \in GateSteps : Advance(d)

NextGate ==
  \/ CameraFrame
  \/ TrackerAnswers
  \/ TrackerFails
  \/ GateTimePasses

SpecGate == InitLifecycle /\ [][NextGate]_vars

(***************************************************************************)
(* Properties of the frame gate (SpecGate)                                 *)
(***************************************************************************)
\* C19: a camera frame starts a pass only if no pass is in flight and at
\* least THROTTLE_INTERVAL ms passed since the previous accepted pass started,
\* so passes never overlap; the in-flight flag is cleared at the end of every
\* accepted pass, also when the tracker call fails.
C19_FrameGating ==
  [][ /\ (ret'.op = "onFrame" /\ ret'.accepted) =>
           /\ ~processingFrame
           /\ inFlight = 0
           /\ sinceFrame >= THROTTLE_INTERVAL
      /\ inFlight' <= 1
      /\ inFlight' < inFlight => ~processingFrame' ]_vars

\* the tracker failed in the second accepted pass, and the flag is cleared
C19_Witness ==
  /\ ret.op = "sendFailed"
  /\ frames = 2
  /\ sinceFrame = THROTTLE_INTERVAL - 1
  /\ ~processingFrame
  /\ inFlight = 0

(***************************************************************************)
(* The gestures: frames whose hands differ in the pinch and in the         *)
(* distance from the centre, on a synthetic and on a sampled preset        *)
(***************************************************************************)
\* the pinch distances of the hands: closed, default and open
Pinches == { MIN_PINCH_DIST, RestPinch, MAX_PINCH_DIST }

\* the distances of the wrist from the centre: halfway and at the edge
Distances == { RestDistance, 2 * RestDistance }

GestureHands(label) ==
  { GestureHand(label, YDen \div 2, distance, pinch) :
      distance \in Distances, pinch \in Pinches }

\* the frames: no hand, one hand, or the chord hand and the melody hand
GestureFrames ==
  { << >> } \cup
  { << hand >> : hand \in GestureHands("Left") \cup GestureHands("Right") } \cup
  (GestureHands("Right") \X GestureHands("Left"))

InitGesture ==
  /\ selectedScale = "major"
  /\ selectedRoot = "C"
  /\ octave = 4
  /\ voiceLeadingEnabled = TRUE
  /\ lastChordVoicing = << >>
  /\ selectedSound \in Sounds
  /\ InitAudio
  /\ arg = NoArg
  /\ ret = NoOp

GestureFrame ==
  /\ frames < MaxFrames
  /\ \E hands \in GestureFrames : OnFrame(hands, "none")

\* the instants at which something can happen next: those of TimeSteps, or
\* the effect throttle opens
GestureTimePasses ==
  \E d \in TimeSteps \cup { EFFECT_CHANGE_THRESHOLD - sinceEffect } : Advance(d)

NextGesture ==
  \/ StartAudio
  \/ GestureFrame
  \/ FireTimer
  \/ GestureTimePasses

SpecGesture == InitGesture /\ [][NextGesture]_vars

\* the reverb applications among the calls of an operation
ReverbCalls(log) == { i \in EffectCalls(log) : log[i].on = "reverb" }

\* C18  Two successive applications of the gesture-driven effects (setEffects
\* reaching the reverb and the delay) are at least EFFECT_CHANGE_THRESHOLD ms
\* apart: a frame that applies them comes no sooner than that after the
\* previous application, and applies them once however many hands ask.
C18_EffectChangesThrottled ==
  [][ (ret'.op = "onHandResults" /\ EffectCalls(calls') # {}) =>
        /\ effectAge >= EFFECT_CHANGE_THRESHOLD
        /\ Cardinality(ReverbCalls(calls')) = 1
        /\ Cardinality(EffectCalls(calls')) = 3 ]_vars

\* a later frame with two hands of different pinch: the effects were applied
\* for the first hand, the request of the second was dropped
C18_Witness ==
  /\ ret.op = "onHandResults"
  /\ frames >= 2
  /\ Len(ret.hands) = 2
  /\ ret.hands[1].pinchDist # ret.hands[2].pinchDist
  /\ Cardinality(ReverbCalls(calls)) = 1
  /\ effectAge = 0
  /\ effectIntensity = gestureIntensity(ret.hands[1].pinchDist)

\* the hands of a frame with the pinch of hand i replaced
PinchedAt(hands, i, pinch) == [ hands EXCEPT ![i].pinchDist = pinch ]

\* what is heard of one hand: the level set for it, the level of its synth
\* and the velocity of its latest sampled attack
HandLevels(st, chordHand) ==
  IF chordHand
  THEN << st.leftHandVolume, st.harmonySynth.volume, st.harmonyVelocity >>
  ELSE << st.rightHandVolume, st.melodySynth.volume, st.melodyVelocity >>

\* C11 (as claimed)  For a fixed hand a smaller pinch distance never yields a
\* higher level (voice dB or note velocity) than a larger one, and the pinch of
\* one hand never changes the level of the other hand's voice, on synthetic
\* and on sampled instruments: the frame is compared with the same frame in
\* which one hand is pinched differently.
C11_PinchControlsVolume ==
  [][ (ret'.op = "onHandResults" /\ audioStarted) =>
        \A i \in 1..Len(ret'.hands) : \A pinch \in Pinches :
          LET other == onHandResults(Audio, lastChordVoicing,
                                     PinchedAt(ret'.hands, i, pinch), "none").st
              chordHand == ret'.hands[i].label # "Left"
          IN  /\ HandLevels(Audio', ~chordHand) = HandLevels(other, ~chordHand)
              /\ pinch > ret'.hands[i].pinchDist =>
                   \A j \in 1..3 :
                     HandLevels(Audio', chordHand)[j] <= HandLevels(other, chordHand)[j]
    ]_vars

\* the harmony voice was recreated by playChord or by the fallback of stopChord
HarmonyRecreated(log) ==
  \E i \in 1..Len(log) : /\ log[i].by \in { "playChord", "stopChord" }
                         /\ log[i].on = "harmonySynth"
                         /\ log[i].fn = "new"

\* the level of the harmony voice when it is replaced: in a frame setVolume
\* has set it for the chord hand before playChord runs
ReplacedVolume(op) ==
  IF op.op = "onHandResults" /\ ChordHandIn(op.hands)
  THEN LET i == CHOOSE j \in 1..Len(op.hands) : op.hands[j].label # "Left"
       IN  setVolume(Audio, "left", op.hands[i].distanceFromCenter,
                     op.hands[i].pinchDist).harmonySynth.volume
  ELSE harmonySynth.volume

\* C20 (as claimed)  Whenever the harmony voice is discarded and recreated, on
\* a chord change or by the stop fallback, the new voice has the volume and
\* the timbre settings (oscillator type and envelope, those of its preset) of
\* the voice it replaces.
C20_RebuildKeepsSettings ==
  [][ (ret'.op \in { "onHandResults", "timer" } /\ HarmonyRecreated(calls')) =>
        /\ harmonySynth'.preset = harmonySynth.preset
        /\ harmonySynth'.volume = ReplacedVolume(ret') ]_vars

(***************************************************************************)
(* The articulation handed to playRealNote / playRealChord                 *)
(***************************************************************************)
\* SAMPLE_LIBRARY[instrumentId].articulations
articulations ==
  [ realPiano |-> << "normal" >>,
    realGuitar |-> << "normal" >>,
    realViolin |-> << "normal" >>,
    realFlute |-> << "normal", "staccato" >>,
    realCello |-> << "arco-normal", "arco-sul-ponticello", "pizzicato" >>,
    realSaxophone |-> << "normal" >> ]

\* Array.prototype.includes
Includes(seq, x) == \E i \in 1..Len(seq) : seq[i] = x

\* getArticulationForNote(instrumentId, pinchDistance), the pinch in thousandths
getArticulationForNote(instrumentId, pinchDistance) ==
  IF instrumentId \notin DOMAIN articulations THEN "normal"
  ELSE LET declared == articulations[instrumentId]
       IN  IF pinchDistance < 50 /\ Includes(declared, "staccato") THEN "staccato"
           ELSE IF pinchDistance < 50 /\ Includes(declared, "pizzicato") THEN "pizzicato"
           ELSE IF Includes(declared, "normal") THEN "normal"
           ELSE IF Includes(declared, "arco-normal") THEN "arco-normal"
           ELSE declared[1]

\* playMelodyNote: the articulation of a sampled note.  hasLast: there is a
\* lastHandPositions.right; speed: the distance from it, in thousandths;
\* r1, r2: the values of Math.random(), in thousandths
MelodyArticulation(instrument, pinch, hasLast, speed, r1, r2) ==
  LET byPinch ==
        IF 2 * pinch < 3 * MIN_PINCH_DIST
        THEN IF instrument = "realFlute"
             THEN IF r1 > 500 THEN "staccato" ELSE "tenuto"
             ELSE IF instrument = "realCello"
             THEN IF r1 > 500 THEN "arco-staccato" ELSE "arco-spiccato"
             ELSE "normal"
        ELSE IF 10 * pinch > 8 * MAX_PINCH_DIST
        THEN IF instrument = "realFlute" THEN "legato"
             ELSE IF instrument = "realCello" THEN "arco-legato"
             ELSE "normal"
        ELSE "normal"
  IN  IF hasLast /\ speed > 50 /\ instrument = "realCello"
      THEN IF r2 > 700 THEN "arco-detache" ELSE "arco-spiccato"
      ELSE byPinch

\* playChord: the articulation of a sampled chord
ChordArticulation(instrument, pinch, hasLast, speed, r1) ==
  LET byPinch ==
        IF pinch < 2 * MIN_PINCH_DIST
        THEN IF instrument = "realCello"
             THEN IF r1 > 600 THEN "pizz-normal" ELSE "arco-staccato"
             ELSE "arco-legato"
        ELSE IF 10 * pinch > 7 * MAX_PINCH_DIST
        THEN IF instrument = "realCello" THEN "arco-legato"
             ELSE IF instrument = "realFlute" THEN "legato"
             ELSE "arco-legato"
        ELSE "arco-legato"
  IN  IF hasLast /\ speed > 30 /\ instrument = "realCello"
      THEN "arco-detache"
      ELSE byPinch

\* the pinch distances on both sides of every threshold of the articulations
ArticulationPinches == { MIN_PINCH_DIST, 18, 40, 60, 75, MAX_PINCH_DIST }

\* the distances moved since the previous call, on both sides of 0.03 and 0.05
Speeds == { 0, 40, 60 }

\* values of Math.random() on both sides of 0.5, 0.6 and 0.7
Randoms == { 400, 550, 650, 800 }

InitArticulation ==
  /\ selectedScale = "major"
  /\ selectedRoot = "C"
  /\ octave = 4
  /\ voiceLeadingEnabled = TRUE
  /\ lastChordVoicing = << >>
  /\ selectedSound = "pad"
  /\ InitAudio
  /\ arg \in [ instrument : DOMAIN articulations, pinch : ArticulationPinches,
               hasLast : BOOLEAN, speed : Speeds ]
  /\ ret = NoOp

\* the sampled branch of playMelodyNote up to its playRealNote call
ArticulatedNote ==
  \E r1 \in Randoms, r2 \in Randoms :
    /\ ret' = [ op |-> "playRealNote", instrument |-> arg.instrument,
                pinch |-> arg.pinch,
                articulation |-> MelodyArticulation(arg.instrument, arg.pinch,
                                                    arg.hasLast, arg.speed, r1, r2) ]
    /\ UNCHANGED << theoryVars, audioVars, arg >>

\* the sampled branch of playChord up to its playRealChord call
ArticulatedChord ==
  \E r1 \in Randoms :
    /\ ret' = [ op |-> "playRealChord", instrument |-> arg.instrument,
                pinch |-> arg.pinch,
                articulation |-> ChordArticulation(arg.instrument, arg.pinch,
                                                   arg.hasLast, arg.speed, r1) ]
    /\ UNCHANGED << theoryVars, audioVars, arg >>

NextArticulation ==
  \/ ArticulatedNote
  \/ ArticulatedChord

SpecArticulation == InitArticulation /\ [][NextArticulation]_vars

\* C21 (as claimed)  For every sampled instrument, pinch distance and hand
\* speed, the articulation chosen for a played note or chord is one of the
\* instrument's declared articulations.
C21_ArticulationDeclared ==
  (ret.op \in { "playRealNote", "playRealChord" }) =>
     Includes(articulations[ret.instrument], ret.articulation)

\* C22 (as claimed)  The melody is monophonic: at every moment at most one
\* melody note is attacked and not yet released, on the melody synth and on
\* the sampler (judged on the sampler while no chord was ever played on it).
C22_MelodyMonophonic ==
  /\ Cardinality(melodySynth.attacked) <= 1
  /\ prevChordNotes = << >> =>
       \A i \in DOMAIN samplers : Cardinality(samplers[i]) <= 1

\* the pitch classes of the notes of a sequence
PitchClassesOf(seq) == { PitchClass(seq[i]) : i \in 1..Len(seq) }

\* C23 (as claimed)  For every chord getChordFromPosition returns, triad or
\* seventh, voice leading enabled or disabled, the pitch classes of chord.notes
\* are exactly (chord root + i) mod 12 for the intervals i of chord.type; a
\* seventh chord contains its seventh.
C23_ChordSpellsItsType ==
  (/\ ret.op = "getChordFromPosition"
   /\ ret.k \in YGrid
   /\ selectedRoot \in Roots
   /\ selectedScale \in ScaleNames) =>
    PitchClassesOf(ret.chord.notes)
      = { (PitchClass(Note(ret.chord.root, 0)) + chordTypes[ret.chord.type][i]) % 12 :
            i \in 1..Len(chordTypes[ret.chord.type]) }

\* the pitches of the note and of the chord notes a frame asked for
PitchesAsked(op) ==
  { Pitch(n) : n \in ({ op.note } \cup NotesOf(op.chordNotes)) \ { NoNote } }

\* C24 (as claimed)  Playing note N on a sampled instrument sounds at the
\* pitch of N: every pitch a frame newly requests from the sampler is the
\* pitch of the note, or of a chord note, the frame plays.
C24_SampledPitchIsTheNote ==
  [][ (/\ ret'.op = "onHandResults"
       /\ audioStarted
       /\ currentRealInstrument \in DOMAIN samplers) =>
        (samplers'[currentRealInstrument] \ samplers[currentRealInstrument])
          \subseteq PitchesAsked(ret') ]_vars

\* C25 (as claimed)  With root, scale, octave and voice-leading setting
\* unchanged, two consecutive getChordFromPosition calls with the same y
\* return the same chord.notes.
C25_SameHandSameVoicing ==
  [][ (/\ ret.op = "getChordFromPosition"
       /\ ret'.op = "getChordFromPosition"
       /\ ret'.k = ret.k
       /\ ret'.use7th = ret.use7th) =>
        ret'.chord.notes = ret.chord.notes ]_vars

(***************************************************************************)
(* Notes, chords and stops on one preset, synthetic or sampled: the frames *)
(* of the voice lifecycle with no preset switch                            *)
(***************************************************************************)
NextStops ==
  \/ StartAudio
  \/ Frame
  \/ FireTimer
  \/ TimePasses

SpecStops == InitGesture /\ [][NextStops]_vars

\* the attacks an operation issued from one function
AttacksBy(log, by) == { i \in 1..Len(log) : log[i].by = by /\ IsAttack(log[i]) }

\* C26 (as claimed)  After stopMelody (stopChord) has run and until the next
\* playMelodyNote (playChord) call, no deferred callback issues an attack for
\* that hand or sets its current note (chord).  With no preset switch a hand
\* is Idle only before it played or through its stop.
C26_NoAttackAfterStop ==
  [][ ret'.op = "timer" =>
        /\ ~rightHandIsPlaying =>
             /\ AttacksBy(calls', "playMelodyNote") = {}
             /\ currentMelodyNote' = NoNote
        /\ ~leftHandIsPlaying =>
             /\ AttacksBy(calls', "playChord") = {}
             /\ IsNoChord(currentChord') ]_vars

\* C27 (as claimed)  Once all pending deferred callbacks have run, the harmony
\* hand is Sounding if and only if the harmony synth carries an attacked,
\* unreleased chord: the fallback of stopChord neither discards a voice on
\* which a chord was started after the stop nor leaves the flag wrong.
C27_FlagMatchesHarmonyVoice ==
  (/\ audioStarted
   /\ timers = << >>
   /\ currentInstrumentType = "synthetic"
   /\ harmonySynth.made) =>
    (leftHandIsPlaying <=> harmonySynth.attacked # {})

\* C28 (as claimed)  On a sampled instrument every sample note playRealChord
\* attacked is released by the matching stopRealChord: with the chord hand
\* Idle, no callback pending and no melody note ever played, nothing is left
\* sounding on a sampler.
C28_ChordSamplesReleased ==
  (/\ audioStarted
   /\ currentInstrumentType = "real"
   /\ lastMelodyNote = NoNote
   /\ ~leftHandIsPlaying
   /\ timers = << >>) =>
    \A i \in DOMAIN samplers : samplers[i] = {}

(***************************************************************************)
(* Rapid preset switches: the sound selector used twice, also within the   *)
(* deferred window of updateSynths, among frames and stops                 *)
(***************************************************************************)
\* the behaviours select a sound at most MaxRapidSwitches times
MaxRapidSwitches == 2

SwitchSound ==
  /\ switches < MaxRapidSwitches
  /\ \E sound \in Sounds : SelectSound(sound, "none")

NextSwitches ==
  \/ StartAudio
  \/ Frame
  \/ SwitchSound
  \/ FireTimer
  \/ TimePasses

SpecSwitches == InitLifecycle /\ [][NextSwitches]_vars

\* the calls of a log on one voice, in their order
CallsOn(log, voice) == { i \in 1..Len(log) : log[i].on = voice }

\* in the calls of one operation a disposed voice is used no more: a dispose
\* is followed at once by the creation of its replacement, and only by that
DisposedIsReplaced(log, voice) ==
  \A i \in CallsOn(log, voice) :
    /\ log[i].fn = "dispose" =>
         \E j \in CallsOn(log, voice) : j > i /\ log[j].fn = "new"
    /\ (LastCallOnBefore(log, voice, i) # 0
        /\ log[LastCallOnBefore(log, voice, i)].fn = "dispose") => log[i].fn = "new"

LowerCased ==
  [ pentatonicMinor |-> "pentatonicminor",
    majorBlues      |-> "majorblues",
    minorBlues      |-> "minorblues",
    realPiano       |-> "realpiano",
    realGuitar      |-> "realguitar",
    realViolin      |-> "realviolin",
    realFlute       |-> "realflute",
    realSaxophone   |-> "realsaxophone",
    realCello       |-> "realcello" ]

toLowerCase(key) == IF key \in DOMAIN LowerCased THEN LowerCased[key] ELSE key

\* the select elements: the option values are the keys of the tables
ScaleSelector ==
  \E key \in ScaleNames : UpdateMusicParameters(key, Null, NoOctave, Null)

SoundSelector ==
  \E key \in DOMAIN soundPresets : UpdateMusicParameters(Null, Null, NoOctave, key)

\* the header dropdowns: the options are the keys with the first letter in
\* upper case, and the handler passes value.toLowerCase()
ScaleDropdown ==
  \E key \in ScaleNames : UpdateMusicParameters(toLowerCase(key), Null, NoOctave, Null)

SoundDropdown ==
  \E key \in DOMAIN soundPresets :
    UpdateMusicParameters(Null, Null, NoOctave, toLowerCase(key))

\* applySettings(settings) with the values getCurrentSettings stored
LoadPreset ==
  \E scale \in ScaleNames, root \in ParamRoots, newOctave \in ParamOctaves,
     sound \in ParamSounds :
    UpdateMusicParameters(scale, root, newOctave, sound)

NextSelectors ==
  \/ ScaleSelector
  \/ SoundSelector
  \/ ScaleDropdown
  \/ SoundDropdown
  \/ LoadPreset

SpecSelectors == InitTheory /\ [][NextSelectors]_vars

\* C30 (as claimed)  After any sequence of selections made through the
\* selectors, the header dropdowns, the control panel or a preset, the
\* selected sound is a key of soundPresets and the selected scale is a key of
\* scales.
C30_SelectionsAreKeys ==
  /\ selectedSound \in DOMAIN soundPresets
  /\ selectedScale \in ScaleNames

====
